---------------------------- MODULE Spec2Model ----------------------------
(***************************************************************************)
(* Model of the manager bus gateway of src/core/dbus-manager.c: the        *)
(* method handlers of the org.freedesktop.systemd1.Manager interface, the  *)
(* queued (deferred) Reload reply, the set of subscribed clients and the   *)
(* signal fan-out of bus_manager_foreach_client().                         *)
(***************************************************************************)
EXTENDS Integers, Sequences, FiniteSets, TLC

(***************************************************************************)
(* Bounds of the model.                                                    *)
(***************************************************************************)
\* number of bus connections (sd_bus objects) ever opened in a run
MaxBus == 3
\* number of Reload requests accepted in a run
MaxReloads == 2
\* number of jobs ever installed in a run
MaxJobs == 2
\* most change records a unit-file batch operation produces
MaxChanges == 2
\* most entries of a list of environment names or assignments
MaxEnv == 2

(***************************************************************************)
(* Values.                                                                 *)
(***************************************************************************)
\* a NULL pointer of type sd_bus* is bus 0; a NULL destination is NULL
NoBus == 0
NULL == "NULL"
\* no message held; a method return built for a call carries the serial of
\* the call it answers, the connection the call came in on and its sender
NoMsg == [reply_to |-> 0, bus |-> 0, dest |-> ""]
MethodReturn(serial, bus, sender) == [reply_to |-> serial, bus |-> bus, dest |-> sender]

BusIds == 1..MaxBus

\* sender names: a peer on a private (direct) connection has no bus name,
\* peers on the API bus carry a unique name
ApiSenders == {":1.1", ":1.2"}
Senders(bus, api) == IF bus = api THEN ApiSenders ELSE {""}

\* negative errno values a send can return (-EPIPE, -ENOTCONN)
SendErrors == {-32, -107}
SendResults == {0} \cup SendErrors

\* names a request can carry, process ids, and the unit a process belongs to
UnitNames == {"a.service", "b.service"}
NoUnit == ""
Pids == 0..2
unit_of_pid(pid) ==
    IF pid = 1 THEN "a.service" ELSE IF pid = 2 THEN "b.service" ELSE NoUnit

ExitCodes == {"MANAGER_RUNNING", "MANAGER_RELOAD", "MANAGER_REEXECUTE",
              "MANAGER_EXIT", "MANAGER_REBOOT", "MANAGER_POWEROFF",
              "MANAGER_HALT", "MANAGER_KEXEC", "MANAGER_SWITCH_ROOT"}

VARIABLES
    private_buses,      \* Manager.private_buses: open direct connections
    api_bus,            \* Manager.api_bus: the shared bus connection or NoBus
    next_bus,           \* identity of the next sd_bus object to be created
    subscribed,         \* Manager.subscribed: set of BusTrackedClient {bus, name}
    queued_message,     \* Manager.queued_message: the held Reload reply or NoMsg
    queued_message_bus, \* Manager.queued_message_bus
    exit_code,          \* Manager.exit_code
    running,            \* FALSE once an assertion has aborted the process
    live_replies,       \* deferred reply messages allocated and not yet released
    n_reload,           \* serial of the last accepted Reload request
    reply_count,        \* per accepted Reload: sends of its reply so far
    units,              \* Manager.units: names of the loaded units
    jobs,               \* Manager.jobs: job id -> unit and type of the job
    next_job,           \* Manager.current_job_id + 1
    op,                 \* the operation performed by the last step
    outcome,            \* what the handler of the last step returned
    sent,               \* the sends attempted by the last step, in order
    ret,                \* integer result of the last step: the return value
                        \* of bus_manager_foreach_client() or of the handler
    trace,              \* what the last step called, in order: access checks,
                        \* lookups, changes of the manager, deliveries
    running_as,         \* Manager.running_as: system or user instance
    switch_root,        \* Manager.switch_root
    switch_root_init,   \* Manager.switch_root_init
    environment,        \* Manager.environment: the assignments, one per name
    log_level,          \* the maximum log level of the process
    log_target,         \* the log target of the process
    runtime_watchdog,   \* Manager.runtime_watchdog
    shutdown_watchdog,  \* Manager.shutdown_watchdog
    finished,           \* Manager.finish_timestamp is set
    not_found,          \* the units whose load_state is UNIT_NOT_FOUND
    referenced_by,      \* the units with a dependency UNIT_REFERENCED_BY
    transient,          \* the units with Unit.transient set
    aliases,            \* further keys of Manager.units: name and unit id
    firmware_timestamp, \* Manager.firmware_timestamp (realtime, 0 if unset)
    kernel_timestamp,   \* Manager.kernel_timestamp
    default_std_output, \* Manager.default_std_output
    default_std_error   \* Manager.default_std_error

vars == <<private_buses, api_bus, next_bus, subscribed, queued_message,
          queued_message_bus, exit_code, running, live_replies, n_reload,
          reply_count, units, jobs, next_job, op, outcome, sent, ret, trace,
          running_as, switch_root, switch_root_init, environment, log_level,
          log_target, runtime_watchdog, shutdown_watchdog, finished,
          not_found, referenced_by, transient, aliases, firmware_timestamp,
          kernel_timestamp, default_std_output, default_std_error>>

conn_vars == <<private_buses, api_bus, next_bus>>
tracker_vars == <<queued_message, queued_message_bus, live_replies, n_reload,
                  reply_count>>
core_vars == <<units, jobs, next_job>>
unit_vars == <<not_found, referenced_by, transient, aliases>>
boot_vars == <<firmware_timestamp, kernel_timestamp, default_std_output,
               default_std_error>>
property_vars == <<log_level, log_target, runtime_watchdog, shutdown_watchdog,
                   finished>>
manager_vars == <<switch_root, switch_root_init, environment, log_level,
                  log_target, runtime_watchdog, shutdown_watchdog, finished>>

OpenBuses == private_buses \cup (IF api_bus = NoBus THEN {} ELSE {api_bus})

\* Results of a handler
Reply(v) == [kind |-> "reply", val |-> v, id |-> 0]
JobReply(id) == [kind |-> "reply", val |-> "job", id |-> id]
Fault(e) == [kind |-> "error", val |-> e, id |-> 0]
NoReply == [kind |-> "noreply", val |-> "1", id |-> 0]
Aborted == [kind |-> "abort", val |-> "assert", id |-> 0]
\* a transport event that dropped n subscriber entries
Removed(n) == [kind |-> "removed", val |-> "", id |-> n]
NoOutcome == [kind |-> "none", val |-> "", id |-> 0]

\* the request (or event) a step handles: method, connection, sender, the
\* answer of the access check if the handler asks, the arguments, and the
\* result of the collaborator the handler calls, if it gets that far
Request(name, bus, sender, allow, arg, id) ==
    [name |-> name, bus |-> bus, sender |-> sender, allow |-> allow,
     arg |-> arg, id |-> id, r |-> 0, arg2 |-> "", first |-> <<>>,
     second |-> <<>>]
Op(name, bus, sender, allow) == Request(name, bus, sender, allow, "", 0)

\* what is put on the wire
Signal == [kind |-> "signal", reply_to |-> 0]
SyncReply == [kind |-> "reply", reply_to |-> 0]
DeferredReply(serial) == [kind |-> "deferred", reply_to |-> serial]

\* one attempted send: the connection, the destination, what was sent, the result
Send(bus, dest, msg, r) == [bus |-> bus, dest |-> dest, msg |-> msg, r |-> r]

Init ==
    /\ private_buses = {}
    /\ api_bus = NoBus
    /\ next_bus = 1
    /\ subscribed = {}
    /\ queued_message = NoMsg
    /\ queued_message_bus = NoBus
    /\ exit_code = "MANAGER_RUNNING"
    /\ running = TRUE
    /\ live_replies = {}
    /\ n_reload = 0
    /\ reply_count = [t \in 1..MaxReloads |-> 0]
    /\ units = {}
    /\ jobs = {}
    /\ next_job = 1
    /\ op = Op("Init", NoBus, "", TRUE)
    /\ outcome = NoOutcome
    /\ sent = <<>>
    /\ ret = 0
    /\ trace = <<>>
    /\ running_as \in {"SYSTEMD_SYSTEM", "SYSTEMD_USER"}
    /\ switch_root = NULL
    /\ switch_root_init = NULL
    /\ environment = {}
    /\ log_level = "info"
    /\ log_target = "journal"
    /\ runtime_watchdog = 0
    /\ shutdown_watchdog = 10
    /\ finished = FALSE
    /\ not_found = {}
    /\ referenced_by = {}
    /\ transient = {}
    /\ aliases = {}
    /\ firmware_timestamp = 0
    /\ kernel_timestamp = 100
    /\ default_std_output = "journal"
    /\ default_std_error = "inherit"


(***************************************************************************)
(* Transport layer: connections appear and disappear.                      *)
(***************************************************************************)
\* a peer connects to the private socket: a new direct connection is tracked
ConnectPrivate ==
    /\ running
    /\ next_bus <= MaxBus
    /\ private_buses' = private_buses \cup {next_bus}
    /\ next_bus' = next_bus + 1
    /\ op' = Op("ConnectPrivate", next_bus, "", TRUE)
    /\ trace' = <<>>
    /\ outcome' = NoOutcome
    /\ sent' = <<>>
    /\ ret' = 0
    /\ UNCHANGED running_as
    /\ UNCHANGED boot_vars
    /\ UNCHANGED unit_vars
    /\ UNCHANGED manager_vars
    /\ UNCHANGED <<api_bus, subscribed, exit_code, running>>
    /\ UNCHANGED tracker_vars
    /\ UNCHANGED core_vars

\* the manager connects to the shared (API) bus
ConnectApi ==
    /\ running
    /\ api_bus = NoBus
    /\ next_bus <= MaxBus
    /\ api_bus' = next_bus
    /\ next_bus' = next_bus + 1
    /\ op' = Op("ConnectApi", next_bus, "", TRUE)
    /\ trace' = <<>>
    /\ outcome' = NoOutcome
    /\ sent' = <<>>
    /\ ret' = 0
    /\ UNCHANGED running_as
    /\ UNCHANGED boot_vars
    /\ UNCHANGED unit_vars
    /\ UNCHANGED manager_vars
    /\ UNCHANGED <<private_buses, subscribed, exit_code, running>>
    /\ UNCHANGED tracker_vars
    /\ UNCHANGED core_vars

\* remove_on_disconnect that forgets to drop the entries
RemoveOnDisconnect_keeping(subs, bus) == subs

\* remove_on_disconnect: every subscriber entry of the connection is dropped
RemoveOnDisconnect(subs, bus) == {d \in subs : d.bus # bus}

\* a connection goes away; the held Reload reply, if it belongs to it, stays
\* until the next attempted send
Disconnect(bus) ==
    /\ running
    /\ bus \in OpenBuses
    /\ private_buses' = private_buses \ {bus}
    /\ api_bus' = IF api_bus = bus THEN NoBus ELSE api_bus
    /\ subscribed' = RemoveOnDisconnect(subscribed, bus)
    /\ op' = Op("Disconnect", bus, "", TRUE)
    /\ trace' = <<>>
    /\ outcome' = Removed(Cardinality(subscribed) -
                          Cardinality(RemoveOnDisconnect(subscribed, bus)))
    /\ sent' = <<>>
    /\ ret' = 0
    /\ UNCHANGED running_as
    /\ UNCHANGED boot_vars
    /\ UNCHANGED unit_vars
    /\ UNCHANGED manager_vars
    /\ UNCHANGED <<next_bus, exit_code, running>>
    /\ UNCHANGED tracker_vars
    /\ UNCHANGED core_vars

(***************************************************************************)
(* Subscriber registry.                                                    *)
(***************************************************************************)
Client(bus, name) == [bus |-> bus, name |-> name]

\* a peer of the API bus loses its name (it left the bus): its subscriber
\* entry is dropped
NameOwnerChanged(name) ==
    /\ running
    /\ api_bus # NoBus
    /\ Client(api_bus, name) \in subscribed
    /\ subscribed' = subscribed \ {Client(api_bus, name)}
    /\ op' = Op("NameOwnerChanged", api_bus, name, TRUE)
    /\ trace' = <<>>
    /\ outcome' = NoOutcome
    /\ sent' = <<>>
    /\ ret' = 0
    /\ UNCHANGED running_as
    /\ UNCHANGED boot_vars
    /\ UNCHANGED unit_vars
    /\ UNCHANGED manager_vars
    /\ UNCHANGED conn_vars
    /\ UNCHANGED <<exit_code, running>>
    /\ UNCHANGED tracker_vars
    /\ UNCHANGED core_vars

\* bus_client_track(): 1 and the entry added, 0 if it is already there,
\* a negative errno if the entry cannot be allocated
bus_client_track(subs, bus, name, ok) ==
    IF Client(bus, name) \in subs THEN [r |-> 0, set |-> subs]
    ELSE IF ~ok THEN [r |-> -12, set |-> subs]
    ELSE [r |-> 1, set |-> subs \cup {Client(bus, name)}]

\* bus_client_untrack(): 1 and the entry removed, 0 if there is none
bus_client_untrack(subs, bus, name) ==
    IF Client(bus, name) \in subs
    THEN [r |-> 1, set |-> subs \ {Client(bus, name)}]
    ELSE [r |-> 0, set |-> subs]

\* method_subscribe() that answers a repeated Subscribe with success
method_subscribe_idempotent(bus, sender, allow, ok) ==
    LET t == bus_client_track(subscribed, bus, sender, ok) IN
    /\ op' = Op("Subscribe", bus, sender, allow)
    /\ trace' = IF allow THEN <<"check", "track">> ELSE <<"check">>
    /\ ret' = 0
    /\ UNCHANGED running_as
    /\ UNCHANGED boot_vars
    /\ UNCHANGED unit_vars
    /\ UNCHANGED manager_vars
    /\ UNCHANGED conn_vars
    /\ UNCHANGED tracker_vars
    /\ UNCHANGED core_vars
    /\ UNCHANGED <<exit_code, running>>
    /\ IF ~allow
       THEN /\ outcome' = Fault("AccessDenied")
            /\ sent' = <<>>
            /\ UNCHANGED subscribed
       ELSE /\ subscribed' = t.set
            /\ IF t.r < 0
               THEN outcome' = Fault("ENOMEM") /\ sent' = <<>>
               ELSE /\ outcome' = Reply("")
                    /\ sent' = <<Send(bus, sender, SyncReply, 0)>>

method_subscribe(bus, sender, allow, ok) ==
    LET t == bus_client_track(subscribed, bus, sender, ok) IN
    /\ op' = Op("Subscribe", bus, sender, allow)
    /\ trace' = IF allow THEN <<"check", "track">> ELSE <<"check">>
    /\ ret' = 0
    /\ UNCHANGED running_as
    /\ UNCHANGED boot_vars
    /\ UNCHANGED unit_vars
    /\ UNCHANGED manager_vars
    /\ UNCHANGED conn_vars
    /\ UNCHANGED tracker_vars
    /\ UNCHANGED core_vars
    /\ UNCHANGED <<exit_code, running>>
    /\ IF ~allow
       THEN /\ outcome' = Fault("AccessDenied")
            /\ sent' = <<>>
            /\ UNCHANGED subscribed
       ELSE /\ subscribed' = t.set
            /\ IF t.r < 0
               THEN outcome' = Fault("ENOMEM") /\ sent' = <<>>
               ELSE IF t.r = 0
               THEN outcome' = Fault("AlreadySubscribed") /\ sent' = <<>>
               ELSE /\ outcome' = Reply("")
                    /\ sent' = <<Send(bus, sender, SyncReply, 0)>>

\* method_unsubscribe() that answers success when there is no entry
method_unsubscribe_silent(bus, sender, allow) ==
    LET t == bus_client_untrack(subscribed, bus, sender) IN
    /\ op' = Op("Unsubscribe", bus, sender, allow)
    /\ trace' = IF allow THEN <<"check", "untrack">> ELSE <<"check">>
    /\ ret' = 0
    /\ UNCHANGED running_as
    /\ UNCHANGED boot_vars
    /\ UNCHANGED unit_vars
    /\ UNCHANGED manager_vars
    /\ UNCHANGED conn_vars
    /\ UNCHANGED tracker_vars
    /\ UNCHANGED core_vars
    /\ UNCHANGED <<exit_code, running>>
    /\ IF ~allow
       THEN /\ outcome' = Fault("AccessDenied")
            /\ sent' = <<>>
            /\ UNCHANGED subscribed
       ELSE /\ subscribed' = t.set
            /\ outcome' = Reply("")
            /\ sent' = <<Send(bus, sender, SyncReply, 0)>>

method_unsubscribe(bus, sender, allow) ==
    LET t == bus_client_untrack(subscribed, bus, sender) IN
    /\ op' = Op("Unsubscribe", bus, sender, allow)
    /\ trace' = IF allow THEN <<"check", "untrack">> ELSE <<"check">>
    /\ ret' = 0
    /\ UNCHANGED running_as
    /\ UNCHANGED boot_vars
    /\ UNCHANGED unit_vars
    /\ UNCHANGED manager_vars
    /\ UNCHANGED conn_vars
    /\ UNCHANGED tracker_vars
    /\ UNCHANGED core_vars
    /\ UNCHANGED <<exit_code, running>>
    /\ IF ~allow
       THEN /\ outcome' = Fault("AccessDenied")
            /\ sent' = <<>>
            /\ UNCHANGED subscribed
       ELSE /\ subscribed' = t.set
            /\ IF t.r = 0
               THEN outcome' = Fault("NotSubscribed") /\ sent' = <<>>
               ELSE /\ outcome' = Reply("")
                    /\ sent' = <<Send(bus, sender, SyncReply, 0)>>

Subscribe ==
    /\ running
    /\ \E bus \in OpenBuses : \E sender \in Senders(bus, api_bus) :
       \E allow \in BOOLEAN : \E ok \in BOOLEAN :
           method_subscribe(bus, sender, allow, ok)

Unsubscribe ==
    /\ running
    /\ \E bus \in OpenBuses : \E sender \in Senders(bus, api_bus) :
       \E allow \in BOOLEAN :
           method_unsubscribe(bus, sender, allow)

(***************************************************************************)
(* Broadcast: bus_manager_foreach_client().                                *)
(***************************************************************************)
\* the orders in which SET_FOREACH may visit the members of a set
Orders(S) ==
    {o \in [1..Cardinality(S) -> S] :
        \A i, j \in 1..Cardinality(S) : o[i] = o[j] => i = j}

\* result of send_message() on a connection; a connection that is not open
\* answers -ENOTCONN
SendResult(res, b) == IF b \in DOMAIN res THEN res[b] ELSE -107

isempty(name) == name = ""

\* the loop going on after a failing send and forgetting the failure
RECURSIVE foreach_private_ignoring(_, _, _)
foreach_private_ignoring(order, res, acc) ==
    IF order = <<>> THEN [sent |-> acc, r |-> 0]
    ELSE LET b == Head(order)
             r == SendResult(res, b)
             acc2 == Append(acc, Send(b, NULL, Signal, r))
         IN foreach_private_ignoring(Tail(order), res, acc2)

\* the SET_FOREACH loop over private_buses: stops at the first failing send
RECURSIVE foreach_private(_, _, _)
foreach_private(order, res, acc) ==
    IF order = <<>> THEN [sent |-> acc, r |-> 0]
    ELSE LET b == Head(order)
             r == SendResult(res, b)
             acc2 == Append(acc, Send(b, NULL, Signal, r))
         IN IF r < 0 THEN [sent |-> acc2, r |-> r]
            ELSE foreach_private(Tail(order), res, acc2)

\* bus_manager_foreach_client() without the single-subscriber path
bus_manager_foreach_client_no_single(subs, order, api, res) ==
    LET n == Cardinality(subs) IN
    IF n <= 0 THEN [sent |-> <<>>, r |-> 0]
    ELSE LET p == foreach_private(order, res, <<>>) IN
         IF p.r < 0 THEN p
         ELSE IF api # NoBus
         THEN LET r == SendResult(res, api) IN
              [sent |-> Append(p.sent, Send(api, NULL, Signal, r)), r |-> r]
         ELSE [sent |-> p.sent, r |-> 0]

\* bus_manager_foreach_client() without the check for an empty set
bus_manager_foreach_client_no_empty(subs, order, api, res) ==
    LET n == Cardinality(subs) IN
    IF n = 1
    THEN LET d == CHOOSE c \in subs : TRUE
             r == SendResult(res, d.bus)
         IN [sent |-> <<Send(d.bus, IF isempty(d.name) THEN NULL ELSE d.name,
                             Signal, r)>>,
             r |-> r]
    ELSE LET p == foreach_private(order, res, <<>>) IN
         IF p.r < 0 THEN p
         ELSE IF api # NoBus
         THEN LET r == SendResult(res, api) IN
              [sent |-> Append(p.sent, Send(api, NULL, Signal, r)), r |-> r]
         ELSE [sent |-> p.sent, r |-> 0]

\* bus_manager_foreach_client() forgetting the API bus
bus_manager_foreach_client_no_api(subs, order, api, res) ==
    LET n == Cardinality(subs) IN
    IF n <= 0 THEN [sent |-> <<>>, r |-> 0]
    ELSE IF n = 1
    THEN LET d == CHOOSE c \in subs : TRUE
             r == SendResult(res, d.bus)
         IN [sent |-> <<Send(d.bus, IF isempty(d.name) THEN NULL ELSE d.name,
                             Signal, r)>>,
             r |-> r]
    ELSE foreach_private(order, res, <<>>)

bus_manager_foreach_client(subs, order, api, res) ==
    LET n == Cardinality(subs) IN
    IF n <= 0 THEN [sent |-> <<>>, r |-> 0]
    ELSE IF n = 1
    THEN LET d == CHOOSE c \in subs : TRUE
             r == SendResult(res, d.bus)
         IN [sent |-> <<Send(d.bus, IF isempty(d.name) THEN NULL ELSE d.name,
                             Signal, r)>>,
             r |-> r]
    ELSE LET p == foreach_private(order, res, <<>>) IN
         IF p.r < 0 THEN p
         ELSE IF api # NoBus
         THEN LET r == SendResult(res, api) IN
              [sent |-> Append(p.sent, Send(api, NULL, Signal, r)), r |-> r]
         ELSE [sent |-> p.sent, r |-> 0]

\* a notification is delivered: bus_manager_send_finished(),
\* bus_manager_send_reloading()
Deliver ==
    /\ running
    /\ \E order \in Orders(private_buses) :
       \E res \in [OpenBuses -> SendResults] :
           LET d == bus_manager_foreach_client(subscribed, order, api_bus, res) IN
           /\ sent' = d.sent
           /\ ret' = d.r
    /\ op' = Op("Deliver", NoBus, "", TRUE)
    /\ trace' = <<"deliver">>
    /\ UNCHANGED running_as
    /\ UNCHANGED boot_vars
    /\ UNCHANGED unit_vars
    /\ UNCHANGED manager_vars
    /\ outcome' = NoOutcome
    /\ UNCHANGED conn_vars
    /\ UNCHANGED tracker_vars
    /\ UNCHANGED core_vars
    /\ UNCHANGED <<subscribed, exit_code, running>>

(***************************************************************************)
(* Deferred Reload reply.                                                  *)
(***************************************************************************)
\* method_reload() that asks for the reload before it builds the reply
method_reload_scheduling_first(bus, sender, allow, ok) ==
    LET reply == MethodReturn(n_reload + 1, bus, sender) IN
    /\ op' = Op("Reload", bus, sender, allow)
    /\ trace' = IF allow /\ queued_message = NoMsg /\ ok
                THEN <<"check", "queue">> ELSE <<"check">>
    /\ ret' = 0
    /\ UNCHANGED running_as
    /\ UNCHANGED boot_vars
    /\ UNCHANGED unit_vars
    /\ UNCHANGED manager_vars
    /\ sent' = <<>>
    /\ UNCHANGED conn_vars
    /\ UNCHANGED core_vars
    /\ UNCHANGED <<subscribed, reply_count>>
    /\ IF ~allow
       THEN /\ outcome' = Fault("AccessDenied")
            /\ UNCHANGED <<queued_message, queued_message_bus, live_replies,
                           n_reload, exit_code, running>>
       ELSE IF queued_message # NoMsg
       THEN /\ outcome' = Aborted
            /\ running' = FALSE
            /\ UNCHANGED <<queued_message, queued_message_bus, live_replies,
                           n_reload, exit_code>>
       ELSE IF ~ok
       THEN /\ outcome' = Fault("ENOMEM")
            /\ queued_message_bus' = bus
            /\ exit_code' = "MANAGER_RELOAD"
            /\ UNCHANGED <<queued_message, live_replies, n_reload, running>>
       ELSE /\ queued_message' = reply
            /\ live_replies' = live_replies \cup {reply}
            /\ n_reload' = n_reload + 1
            /\ queued_message_bus' = bus
            /\ exit_code' = "MANAGER_RELOAD"
            /\ outcome' = NoReply
            /\ UNCHANGED running

\* method_reload() without the assertion on the queued message
method_reload_unasserted(bus, sender, allow, ok) ==
    LET reply == MethodReturn(n_reload + 1, bus, sender) IN
    /\ op' = Op("Reload", bus, sender, allow)
    /\ trace' = IF allow /\ ok THEN <<"check", "queue">> ELSE <<"check">>
    /\ ret' = 0
    /\ UNCHANGED running_as
    /\ UNCHANGED boot_vars
    /\ UNCHANGED unit_vars
    /\ UNCHANGED manager_vars
    /\ sent' = <<>>
    /\ UNCHANGED conn_vars
    /\ UNCHANGED core_vars
    /\ UNCHANGED <<subscribed, reply_count>>
    /\ IF ~allow
       THEN /\ outcome' = Fault("AccessDenied")
            /\ UNCHANGED <<queued_message, queued_message_bus, live_replies,
                           n_reload, exit_code, running>>
       ELSE IF ~ok
       THEN /\ outcome' = Fault("ENOMEM")
            /\ UNCHANGED <<queued_message, queued_message_bus, live_replies,
                           n_reload, exit_code, running>>
       ELSE /\ queued_message' = reply
            /\ live_replies' = live_replies \cup {reply}
            /\ n_reload' = n_reload + 1
            /\ queued_message_bus' = bus
            /\ exit_code' = "MANAGER_RELOAD"
            /\ outcome' = NoReply
            /\ UNCHANGED running

\* method_reload() remembering the API bus instead of the caller's connection
method_reload_on_api_bus(bus, sender, allow, ok) ==
    LET reply == MethodReturn(n_reload + 1, bus, sender) IN
    /\ op' = Op("Reload", bus, sender, allow)
    /\ trace' = IF allow /\ queued_message = NoMsg /\ ok
                THEN <<"check", "queue">> ELSE <<"check">>
    /\ ret' = 0
    /\ UNCHANGED running_as
    /\ UNCHANGED boot_vars
    /\ UNCHANGED unit_vars
    /\ UNCHANGED manager_vars
    /\ sent' = <<>>
    /\ UNCHANGED conn_vars
    /\ UNCHANGED core_vars
    /\ UNCHANGED <<subscribed, reply_count>>
    /\ IF ~allow
       THEN /\ outcome' = Fault("AccessDenied")
            /\ UNCHANGED <<queued_message, queued_message_bus, live_replies,
                           n_reload, exit_code, running>>
       ELSE IF queued_message # NoMsg
       THEN /\ outcome' = Aborted
            /\ running' = FALSE
            /\ UNCHANGED <<queued_message, queued_message_bus, live_replies,
                           n_reload, exit_code>>
       ELSE IF ~ok
       THEN /\ outcome' = Fault("ENOMEM")
            /\ UNCHANGED <<queued_message, queued_message_bus, live_replies,
                           n_reload, exit_code, running>>
       ELSE /\ queued_message' = reply
            /\ live_replies' = live_replies \cup {reply}
            /\ n_reload' = n_reload + 1
            /\ queued_message_bus' = IF api_bus # NoBus THEN api_bus ELSE bus
            /\ exit_code' = "MANAGER_RELOAD"
            /\ outcome' = NoReply
            /\ UNCHANGED running

method_reload(bus, sender, allow, ok) ==
    LET reply == MethodReturn(n_reload + 1, bus, sender) IN
    /\ op' = Op("Reload", bus, sender, allow)
    /\ trace' = IF allow /\ queued_message = NoMsg /\ ok
                THEN <<"check", "queue">> ELSE <<"check">>
    /\ ret' = 0
    /\ UNCHANGED running_as
    /\ UNCHANGED boot_vars
    /\ UNCHANGED unit_vars
    /\ UNCHANGED manager_vars
    /\ sent' = <<>>
    /\ UNCHANGED conn_vars
    /\ UNCHANGED core_vars
    /\ UNCHANGED <<subscribed, reply_count>>
    /\ IF ~allow
       THEN \* selinux_access_check() denies
            /\ outcome' = Fault("AccessDenied")
            /\ UNCHANGED <<queued_message, queued_message_bus, live_replies,
                           n_reload, exit_code, running>>
       ELSE IF queued_message # NoMsg
       THEN \* assert(!m->queued_message) fails: the process aborts
            /\ outcome' = Aborted
            /\ running' = FALSE
            /\ UNCHANGED <<queued_message, queued_message_bus, live_replies,
                           n_reload, exit_code>>
       ELSE IF ~ok
       THEN \* sd_bus_message_new_method_return() fails
            /\ outcome' = Fault("ENOMEM")
            /\ UNCHANGED <<queued_message, queued_message_bus, live_replies,
                           n_reload, exit_code, running>>
       ELSE /\ queued_message' = reply
            /\ live_replies' = live_replies \cup {reply}
            /\ n_reload' = n_reload + 1
            /\ queued_message_bus' = bus
            /\ exit_code' = "MANAGER_RELOAD"
            /\ outcome' = NoReply
            /\ UNCHANGED running

Reload ==
    /\ running
    /\ \E bus \in OpenBuses : \E sender \in Senders(bus, api_bus) :
       \E allow \in BOOLEAN : \E ok \in BOOLEAN :
           /\ (allow /\ ok /\ queued_message = NoMsg) => n_reload < MaxReloads
           /\ method_reload(bus, sender, allow, ok)

\* bus_send_queued_message() that keeps the reply for a later attempt when its
\* connection is gone
bus_send_queued_message_retrying(r) ==
    /\ queued_message # NoMsg
    /\ IF queued_message_bus \in OpenBuses
       THEN /\ sent' = <<Send(queued_message_bus, queued_message.dest,
                              DeferredReply(queued_message.reply_to), r)>>
            /\ reply_count' = [reply_count EXCEPT ![queued_message.reply_to] = @ + 1]
       ELSE /\ sent' = <<>>
            /\ UNCHANGED reply_count
    /\ IF queued_message_bus \in OpenBuses
       THEN /\ live_replies' = live_replies \ {queued_message}
            /\ queued_message' = NoMsg
            /\ queued_message_bus' = NoBus
       ELSE UNCHANGED <<live_replies, queued_message, queued_message_bus>>
    /\ op' = Op("ReloadFinished", queued_message_bus, "", TRUE)
    /\ trace' = <<>>
    /\ outcome' = NoOutcome
    /\ ret' = 0
    /\ UNCHANGED running_as
    /\ UNCHANGED boot_vars
    /\ UNCHANGED unit_vars
    /\ UNCHANGED manager_vars
    /\ UNCHANGED conn_vars
    /\ UNCHANGED core_vars
    /\ UNCHANGED <<subscribed, n_reload, exit_code, running>>

\* the reload has finished: the held reply is sent on the recorded connection
\* and the record is dropped; nothing is sent on a connection that is gone
bus_send_queued_message(r) ==
    /\ queued_message # NoMsg
    /\ IF queued_message_bus \in OpenBuses
       THEN /\ sent' = <<Send(queued_message_bus, queued_message.dest,
                              DeferredReply(queued_message.reply_to), r)>>
            /\ reply_count' = [reply_count EXCEPT ![queued_message.reply_to] = @ + 1]
       ELSE /\ sent' = <<>>
            /\ UNCHANGED reply_count
    /\ live_replies' = live_replies \ {queued_message}
    /\ queued_message' = NoMsg
    /\ queued_message_bus' = NoBus
    /\ op' = Op("ReloadFinished", queued_message_bus, "", TRUE)
    /\ trace' = <<>>
    /\ outcome' = NoOutcome
    /\ ret' = 0
    /\ UNCHANGED running_as
    /\ UNCHANGED boot_vars
    /\ UNCHANGED unit_vars
    /\ UNCHANGED manager_vars
    /\ UNCHANGED conn_vars
    /\ UNCHANGED core_vars
    /\ UNCHANGED <<subscribed, n_reload, exit_code, running>>

ReloadFinished ==
    /\ running
    /\ \E r \in SendResults : bus_send_queued_message(r)

(***************************************************************************)
(* Lifecycle requests: they set Manager.exit_code.                         *)
(***************************************************************************)
\* what stays as it is in a handler that only schedules a lifecycle action
Schedule(request, result, wire, calls) ==
    /\ op' = request
    /\ outcome' = result
    /\ sent' = wire
    /\ trace' = calls
    /\ ret' = 0
    /\ UNCHANGED conn_vars
    /\ UNCHANGED tracker_vars
    /\ UNCHANGED core_vars
    /\ UNCHANGED <<subscribed, running, running_as>>
    /\ UNCHANGED boot_vars
    /\ UNCHANGED unit_vars
    /\ UNCHANGED manager_vars

\* method_reexecute() answering like the other lifecycle requests
method_reexecute_replying(bus, sender, allow) ==
    LET request == Op("Reexecute", bus, sender, allow) IN
    IF ~allow
    THEN /\ UNCHANGED exit_code
         /\ Schedule(request, Fault("AccessDenied"), <<>>, <<"check">>)
    ELSE /\ exit_code' = "MANAGER_REEXECUTE"
         /\ Schedule(request, Reply(""), <<Send(bus, sender, SyncReply, 0)>>,
                     <<"check", "exit">>)

method_reexecute(bus, sender, allow) ==
    LET request == Op("Reexecute", bus, sender, allow) IN
    IF ~allow
    THEN /\ UNCHANGED exit_code
         /\ Schedule(request, Fault("AccessDenied"), <<>>, <<"check">>)
    ELSE \* no reply: the client waits for the disconnect
         /\ exit_code' = "MANAGER_REEXECUTE"
         /\ Schedule(request, NoReply, <<>>, <<"check", "exit">>)

method_exit(bus, sender, allow) ==
    LET request == Op("Exit", bus, sender, allow) IN
    IF ~allow
    THEN /\ UNCHANGED exit_code
         /\ Schedule(request, Fault("AccessDenied"), <<>>, <<"check">>)
    ELSE IF running_as = "SYSTEMD_SYSTEM"
    THEN /\ UNCHANGED exit_code
         /\ Schedule(request, Fault("NotSupported"), <<>>, <<"check">>)
    ELSE /\ exit_code' = "MANAGER_EXIT"
         /\ Schedule(request, Reply(""), <<Send(bus, sender, SyncReply, 0)>>,
                     <<"check", "exit">>)

method_reboot(bus, sender, allow) ==
    LET request == Op("Reboot", bus, sender, allow) IN
    IF ~allow
    THEN /\ UNCHANGED exit_code
         /\ Schedule(request, Fault("AccessDenied"), <<>>, <<"check">>)
    ELSE IF running_as # "SYSTEMD_SYSTEM"
    THEN /\ UNCHANGED exit_code
         /\ Schedule(request, Fault("NotSupported"), <<>>, <<"check">>)
    ELSE /\ exit_code' = "MANAGER_REBOOT"
         /\ Schedule(request, Reply(""), <<Send(bus, sender, SyncReply, 0)>>,
                     <<"check", "exit">>)

\* method_poweroff() that schedules a halt
method_poweroff_halting(bus, sender, allow) ==
    LET request == Op("PowerOff", bus, sender, allow) IN
    IF ~allow
    THEN /\ UNCHANGED exit_code
         /\ Schedule(request, Fault("AccessDenied"), <<>>, <<"check">>)
    ELSE IF running_as # "SYSTEMD_SYSTEM"
    THEN /\ UNCHANGED exit_code
         /\ Schedule(request, Fault("NotSupported"), <<>>, <<"check">>)
    ELSE /\ exit_code' = "MANAGER_HALT"
         /\ Schedule(request, Reply(""), <<Send(bus, sender, SyncReply, 0)>>,
                     <<"check", "exit">>)

method_poweroff(bus, sender, allow) ==
    LET request == Op("PowerOff", bus, sender, allow) IN
    IF ~allow
    THEN /\ UNCHANGED exit_code
         /\ Schedule(request, Fault("AccessDenied"), <<>>, <<"check">>)
    ELSE IF running_as # "SYSTEMD_SYSTEM"
    THEN /\ UNCHANGED exit_code
         /\ Schedule(request, Fault("NotSupported"), <<>>, <<"check">>)
    ELSE /\ exit_code' = "MANAGER_POWEROFF"
         /\ Schedule(request, Reply(""), <<Send(bus, sender, SyncReply, 0)>>,
                     <<"check", "exit">>)

method_halt(bus, sender, allow) ==
    LET request == Op("Halt", bus, sender, allow) IN
    IF ~allow
    THEN /\ UNCHANGED exit_code
         /\ Schedule(request, Fault("AccessDenied"), <<>>, <<"check">>)
    ELSE IF running_as # "SYSTEMD_SYSTEM"
    THEN /\ UNCHANGED exit_code
         /\ Schedule(request, Fault("NotSupported"), <<>>, <<"check">>)
    ELSE /\ exit_code' = "MANAGER_HALT"
         /\ Schedule(request, Reply(""), <<Send(bus, sender, SyncReply, 0)>>,
                     <<"check", "exit">>)

method_kexec(bus, sender, allow) ==
    LET request == Op("KExec", bus, sender, allow) IN
    IF ~allow
    THEN /\ UNCHANGED exit_code
         /\ Schedule(request, Fault("AccessDenied"), <<>>, <<"check">>)
    ELSE IF running_as # "SYSTEMD_SYSTEM"
    THEN /\ UNCHANGED exit_code
         /\ Schedule(request, Fault("NotSupported"), <<>>, <<"check">>)
    ELSE /\ exit_code' = "MANAGER_KEXEC"
         /\ Schedule(request, Reply(""), <<Send(bus, sender, SyncReply, 0)>>,
                     <<"check", "exit">>)

Reexecute ==
    /\ running
    /\ \E bus \in OpenBuses : \E sender \in Senders(bus, api_bus) :
       \E allow \in BOOLEAN : method_reexecute(bus, sender, allow)

Exit ==
    /\ running
    /\ \E bus \in OpenBuses : \E sender \in Senders(bus, api_bus) :
       \E allow \in BOOLEAN : method_exit(bus, sender, allow)

Reboot ==
    /\ running
    /\ \E bus \in OpenBuses : \E sender \in Senders(bus, api_bus) :
       \E allow \in BOOLEAN : method_reboot(bus, sender, allow)

PowerOff ==
    /\ running
    /\ \E bus \in OpenBuses : \E sender \in Senders(bus, api_bus) :
       \E allow \in BOOLEAN : method_poweroff(bus, sender, allow)

Halt ==
    /\ running
    /\ \E bus \in OpenBuses : \E sender \in Senders(bus, api_bus) :
       \E allow \in BOOLEAN : method_halt(bus, sender, allow)

KExec ==
    /\ running
    /\ \E bus \in OpenBuses : \E sender \in Senders(bus, api_bus) :
       \E allow \in BOOLEAN : method_kexec(bus, sender, allow)

(***************************************************************************)
(* Unit-file batch operations.                                             *)
(***************************************************************************)
\* errors of the unit-file collaborator (-EIO, -ENOENT)
CallErrors == {-5, -2}
\* results of the unit-file collaborator: a negative errno, or 0/1 (whether
\* the units carry install information)
CallResults == CallErrors \cup {0, 1}

\* the fault a negative return value of a handler becomes
Errno(r) ==
    Fault(CASE r = -2 -> "ENOENT"
            [] r = -5 -> "EIO"
            [] r = -12 -> "ENOMEM"
            [] r = -13 -> "AccessDenied"
            [] r = -74 -> "EBADMSG"
            [] OTHER -> "Failed")

\* the reply of a batch operation: the optional boolean and n change records
ChangesReply(carries_install_info, n) ==
    [kind |-> "reply",
     val |-> IF carries_install_info < 0 THEN "a(sss)"
             ELSE IF carries_install_info = 0 THEN "b=false,a(sss)"
             ELSE "b=true,a(sss)",
     id |-> n]

\* what a batch handler leaves as it is
UnitFiles(request, result, wire, calls, r) ==
    /\ op' = request
    /\ outcome' = result
    /\ sent' = wire
    /\ trace' = calls
    /\ ret' = r
    /\ UNCHANGED conn_vars
    /\ UNCHANGED tracker_vars
    /\ UNCHANGED core_vars
    /\ UNCHANGED <<subscribed, exit_code, running, running_as>>
    /\ UNCHANGED boot_vars
    /\ UNCHANGED unit_vars
    /\ UNCHANGED manager_vars

\* reply_unit_file_changes_and_free() that replies before it signals
reply_unit_file_changes_and_free_reply_first(request, carries_install_info, n_changes, calls) ==
    IF n_changes > 0
    THEN \E order \in Orders(private_buses) :
         \E res \in [OpenBuses -> SendResults] :
         \E ok \in BOOLEAN :
             LET d == bus_manager_foreach_client(subscribed, order, api_bus, res)
             IN  IF ~ok
                 THEN UnitFiles(request, Errno(-12), d.sent,
                                calls \o <<"deliver">>, -12)
                 ELSE UnitFiles(request,
                                ChangesReply(carries_install_info, n_changes),
                                <<Send(request.bus, request.sender, SyncReply, 0)>> \o d.sent,
                                calls \o <<"deliver", "reply">>, 0)
    ELSE \E ok \in BOOLEAN :
             IF ~ok
             THEN UnitFiles(request, Errno(-12), <<>>, calls, -12)
             ELSE UnitFiles(request,
                            ChangesReply(carries_install_info, n_changes),
                            <<Send(request.bus, request.sender, SyncReply, 0)>>,
                            calls \o <<"reply">>, 0)

\* reply_unit_file_changes_and_free() that signals also when nothing changed
reply_unit_file_changes_and_free_always(request, carries_install_info, n_changes, calls) ==
    \E order \in Orders(private_buses) :
    \E res \in [OpenBuses -> SendResults] :
    \E ok \in BOOLEAN :
        LET d == bus_manager_foreach_client(subscribed, order, api_bus, res)
        IN  IF ~ok
            THEN UnitFiles(request, Errno(-12), d.sent,
                           calls \o <<"deliver">>, -12)
            ELSE UnitFiles(request,
                           ChangesReply(carries_install_info, n_changes),
                           d.sent \o <<Send(request.bus, request.sender, SyncReply, 0)>>,
                           calls \o <<"deliver", "reply">>, 0)

reply_unit_file_changes_and_free(request, carries_install_info, n_changes, calls) ==
    IF n_changes > 0
    THEN \E order \in Orders(private_buses) :
         \E res \in [OpenBuses -> SendResults] :
         \E ok \in BOOLEAN :
             \* the result of bus_manager_foreach_client() is not looked at
             LET d == bus_manager_foreach_client(subscribed, order, api_bus, res)
             IN  IF ~ok
                 THEN UnitFiles(request, Errno(-12), d.sent,
                                calls \o <<"deliver">>, -12)
                 ELSE UnitFiles(request,
                                ChangesReply(carries_install_info, n_changes),
                                d.sent \o <<Send(request.bus, request.sender, SyncReply, 0)>>,
                                calls \o <<"deliver", "reply">>, 0)
    ELSE \E ok \in BOOLEAN :
             IF ~ok
             THEN UnitFiles(request, Errno(-12), <<>>, calls, -12)
             ELSE UnitFiles(request,
                            ChangesReply(carries_install_info, n_changes),
                            <<Send(request.bus, request.sender, SyncReply, 0)>>,
                            calls \o <<"reply">>, 0)

\* method_enable_unit_files_generic() that replies with the changes made
\* so far when the collaborator fails
method_enable_unit_files_generic_lenient(method, bus, sender, verb, carries_install_info, allow, n_changes) ==
    LET request == Request(method, bus, sender, allow, verb, n_changes) IN
    IF ~allow
    THEN UnitFiles(request, Errno(-13), <<>>, <<"check">>, -13)
    ELSE \E readok \in BOOLEAN :
         IF ~readok
         THEN UnitFiles(request, Errno(-74), <<>>, <<"check">>, -74)
         ELSE \E r \in CallResults :
              reply_unit_file_changes_and_free(
                  [request EXCEPT !.r = r],
                  IF carries_install_info /\ r >= 0 THEN r ELSE -1,
                  n_changes, <<"check", "call">>)

method_enable_unit_files_generic(method, bus, sender, verb, carries_install_info, allow, n_changes) ==
    LET request == Request(method, bus, sender, allow, verb, n_changes) IN
    IF ~allow
    THEN UnitFiles(request, Errno(-13), <<>>, <<"check">>, -13)
    ELSE \E readok \in BOOLEAN :
         IF ~readok
         THEN UnitFiles(request, Errno(-74), <<>>, <<"check">>, -74)
         ELSE \E r \in CallResults :
              IF r < 0
              THEN UnitFiles([request EXCEPT !.r = r], Errno(r), <<>>,
                             <<"check", "call">>, r)
              ELSE reply_unit_file_changes_and_free(
                       [request EXCEPT !.r = r], IF carries_install_info THEN r ELSE -1,
                       n_changes, <<"check", "call">>)

method_disable_unit_files_generic(method, bus, sender, verb, allow, n_changes) ==
    LET request == Request(method, bus, sender, allow, verb, n_changes) IN
    IF ~allow
    THEN UnitFiles(request, Errno(-13), <<>>, <<"check">>, -13)
    ELSE \E readok \in BOOLEAN :
         IF ~readok
         THEN UnitFiles(request, Errno(-74), <<>>, <<"check">>, -74)
         ELSE \E r \in CallResults :
              IF r < 0
              THEN UnitFiles([request EXCEPT !.r = r], Errno(r), <<>>,
                             <<"check", "call">>, r)
              ELSE reply_unit_file_changes_and_free(
                       [request EXCEPT !.r = r], -1, n_changes, <<"check", "call">>)

method_set_default_target(bus, sender, allow, n_changes) ==
    LET request == Request("SetDefaultTarget", bus, sender, allow, "enable",
                           n_changes) IN
    IF ~allow
    THEN UnitFiles(request, Errno(-13), <<>>, <<"check">>, -13)
    ELSE \E readok \in BOOLEAN :
         IF ~readok
         THEN UnitFiles(request, Errno(-74), <<>>, <<"check">>, -74)
         ELSE \E r \in CallResults :
              IF r < 0
              THEN UnitFiles([request EXCEPT !.r = r], Errno(r), <<>>,
                             <<"check", "call">>, r)
              ELSE reply_unit_file_changes_and_free(
                       [request EXCEPT !.r = r], -1, n_changes, <<"check", "call">>)

\* the methods served by method_enable_unit_files_generic(): the verb of the
\* access check and whether the reply carries the install-information flag
enable_unit_files ==
    {[name |-> "EnableUnitFiles", verb |-> "enable", carries |-> TRUE],
     [name |-> "ReenableUnitFiles", verb |-> "enable", carries |-> TRUE],
     [name |-> "LinkUnitFiles", verb |-> "enable", carries |-> FALSE],
     [name |-> "PresetUnitFiles", verb |-> "enable", carries |-> TRUE],
     [name |-> "MaskUnitFiles", verb |-> "disable", carries |-> FALSE]}

\* the methods served by method_disable_unit_files_generic()
disable_unit_files ==
    {[name |-> "DisableUnitFiles", verb |-> "disable"],
     [name |-> "UnmaskUnitFiles", verb |-> "enable"]}

EnableUnitFiles ==
    /\ running
    /\ \E method \in enable_unit_files :
       \E bus \in OpenBuses : \E sender \in Senders(bus, api_bus) :
       \E allow \in BOOLEAN : \E n_changes \in 0..MaxChanges :
           method_enable_unit_files_generic(method.name, bus, sender,
               method.verb, method.carries, allow, n_changes)

DisableUnitFiles ==
    /\ running
    /\ \E method \in disable_unit_files :
       \E bus \in OpenBuses : \E sender \in Senders(bus, api_bus) :
       \E allow \in BOOLEAN : \E n_changes \in 0..MaxChanges :
           method_disable_unit_files_generic(method.name, bus, sender,
               method.verb, allow, n_changes)

SetDefaultTarget ==
    /\ running
    /\ \E bus \in OpenBuses : \E sender \in Senders(bus, api_bus) :
       \E allow \in BOOLEAN : \E n_changes \in 0..MaxChanges :
           method_set_default_target(bus, sender, allow, n_changes)

(***************************************************************************)
(* Switch root and the manager environment.                                *)
(***************************************************************************)
\* what a handler of this group leaves as it is
Setting(request, result, wire, calls) ==
    /\ op' = request
    /\ outcome' = result
    /\ sent' = wire
    /\ trace' = calls
    /\ ret' = 0
    /\ UNCHANGED conn_vars
    /\ UNCHANGED tracker_vars
    /\ UNCHANGED core_vars
    /\ UNCHANGED <<subscribed, exit_code, running, running_as>>
    /\ UNCHANGED boot_vars
    /\ UNCHANGED unit_vars

\* root and init paths a caller may pass
Roots == {"/", "//", "sysroot", "/sysroot"}
Inits == {"", "/sbin/init", "sbin/init"}
path_is_absolute(p) == p \in {"/", "//", "/sysroot", "/sbin/init"}
\* path_equal() compares the paths with repeated slashes folded
path_kill_slashes(p) == IF p = "//" THEN "/" ELSE p
path_equal(a, b) == path_kill_slashes(a) = path_kill_slashes(b)

\* method_switch_root() that validates the paths before it looks at the mode
method_switch_root_validating_first(bus, sender, allow, root, init) ==
    LET request == [Request("SwitchRoot", bus, sender, allow, root, 0)
                        EXCEPT !.arg2 = init]
        keep == UNCHANGED manager_vars
    IN
    IF ~allow
    THEN keep /\ Setting(request, Fault("AccessDenied"), <<>>, <<"check">>)
    ELSE \E readok \in BOOLEAN :
    IF ~readok
    THEN keep /\ Setting(request, Fault("EBADMSG"), <<>>, <<"check">>)
    ELSE IF path_equal(root, "/") \/ ~path_is_absolute(root)
    THEN keep /\ Setting(request, Fault("InvalidArguments"), <<>>, <<"check">>)
    ELSE IF running_as # "SYSTEMD_SYSTEM"
    THEN keep /\ Setting(request, Fault("NotSupported"), <<>>, <<"check">>)
    ELSE IF ~isempty(init) /\ ~path_is_absolute(init)
    THEN keep /\ Setting(request, Fault("InvalidArguments"), <<>>, <<"check">>)
    ELSE \E joined \in BOOLEAN : \E found \in BOOLEAN : \E ok \in BOOLEAN :
         IF ~isempty(init) /\ ~joined
         THEN keep /\ Setting(request, Fault("ENOMEM"), <<>>, <<"check">>)
         ELSE IF ~found
         THEN keep /\ Setting(request, Fault("InvalidArguments"), <<>>, <<"check">>)
         ELSE IF ~ok
         THEN keep /\ Setting(request, Fault("ENOMEM"), <<>>, <<"check">>)
         ELSE /\ switch_root' = root
              /\ switch_root_init' = IF isempty(init) THEN NULL ELSE init
              /\ UNCHANGED environment
              /\ UNCHANGED property_vars
              /\ Setting(request, Reply(""),
                         <<Send(bus, sender, SyncReply, 0)>>,
                         <<"check", "switch_root">>)

method_switch_root(bus, sender, allow, root, init) ==
    LET request == [Request("SwitchRoot", bus, sender, allow, root, 0)
                        EXCEPT !.arg2 = init]
        keep == UNCHANGED manager_vars
    IN
    IF ~allow
    THEN keep /\ Setting(request, Fault("AccessDenied"), <<>>, <<"check">>)
    ELSE IF running_as # "SYSTEMD_SYSTEM"
    THEN keep /\ Setting(request, Fault("NotSupported"), <<>>, <<"check">>)
    ELSE \E readok \in BOOLEAN :
    IF ~readok
    THEN keep /\ Setting(request, Fault("EBADMSG"), <<>>, <<"check">>)
    ELSE IF path_equal(root, "/") \/ ~path_is_absolute(root)
    THEN keep /\ Setting(request, Fault("InvalidArguments"), <<>>, <<"check">>)
    ELSE IF ~isempty(init) /\ ~path_is_absolute(init)
    THEN keep /\ Setting(request, Fault("InvalidArguments"), <<>>, <<"check">>)
    ELSE \* joined: strappend(root, init) succeeds; found: path_is_os_tree(root)
         \* if no init is given, else access(root + init, X_OK); ok: the
         \* copies of the paths can be allocated
         \E joined \in BOOLEAN : \E found \in BOOLEAN : \E ok \in BOOLEAN :
         IF ~isempty(init) /\ ~joined
         THEN keep /\ Setting(request, Fault("ENOMEM"), <<>>, <<"check">>)
         ELSE IF ~found
         THEN keep /\ Setting(request, Fault("InvalidArguments"), <<>>, <<"check">>)
         ELSE IF ~ok
         THEN keep /\ Setting(request, Fault("ENOMEM"), <<>>, <<"check">>)
         ELSE /\ switch_root' = root
              /\ switch_root_init' = IF isempty(init) THEN NULL ELSE init
              /\ UNCHANGED environment
              /\ UNCHANGED property_vars
              /\ Setting(request, Reply(""),
                         <<Send(bus, sender, SyncReply, 0)>>,
                         <<"check", "switch_root">>)

SwitchRoot ==
    /\ running
    /\ \E bus \in OpenBuses : \E sender \in Senders(bus, api_bus) :
       \E allow \in BOOLEAN : \E root \in Roots : \E init \in Inits :
           method_switch_root(bus, sender, allow, root, init)

\* entries a caller may pass: an assignment, a bare name, and an assignment
\* to something that is not a name
EnvEntries == {"A=1", "A", "1A=1"}
EnvLists == UNION {[1..n -> EnvEntries] : n \in 0..MaxEnv}
env_assignment_is_valid(e) == e = "A=1"
env_name_is_valid(e) == e = "A"
\* the name an entry is about
env_name(e) == IF e \in {"A=1", "A"} THEN "A" ELSE "1A"

strv_env_is_valid(l) ==
    \A i \in 1..Len(l) : env_assignment_is_valid(l[i])

strv_env_name_or_assignment_is_valid(l) ==
    \A i \in 1..Len(l) : env_assignment_is_valid(l[i]) \/ env_name_is_valid(l[i])

\* strv_env_delete(): a name drops the assignment of that name, an assignment
\* drops that very assignment
strv_env_delete(env, minus) ==
    {e \in env : ~\E i \in 1..Len(minus) :
                     \/ minus[i] = e
                     \/ (env_name_is_valid(minus[i]) /\ env_name(e) = minus[i])}

\* strv_env_merge(): a later assignment replaces the one of the same name
RECURSIVE strv_env_merge(_, _)
strv_env_merge(env, plus) ==
    IF plus = <<>> THEN env
    ELSE strv_env_merge({e \in env : env_name(e) # env_name(Head(plus))}
                            \cup {Head(plus)},
                        Tail(plus))

manager_environment_add(env, minus, plus) ==
    strv_env_merge(strv_env_delete(env, minus), plus)

\* the end of the three handlers: manager_environment_add() and the reply
environment_add(request, minus, plus) ==
    \E ok \in BOOLEAN :
        IF ~ok
        THEN /\ UNCHANGED manager_vars
             /\ Setting(request, Fault("ENOMEM"), <<>>, <<"check", "environment">>)
        ELSE /\ environment' = manager_environment_add(environment, minus, plus)
             /\ UNCHANGED <<switch_root, switch_root_init>>
             /\ UNCHANGED property_vars
             /\ Setting(request, Reply(""),
                        <<Send(request.bus, request.sender, SyncReply, 0)>>,
                        <<"check", "environment">>)

method_set_environment(bus, sender, allow, first) ==
    LET request == [Op("SetEnvironment", bus, sender, allow)
                        EXCEPT !.first = first]
        keep == UNCHANGED manager_vars
    IN
    IF ~allow
    THEN keep /\ Setting(request, Fault("AccessDenied"), <<>>, <<"check">>)
    ELSE \E readok \in BOOLEAN :
    IF ~readok
    THEN keep /\ Setting(request, Fault("EBADMSG"), <<>>, <<"check">>)
    ELSE LET plus == first IN
    IF ~strv_env_is_valid(plus)
    THEN keep /\ Setting(request, Fault("InvalidArguments"), <<>>, <<"check">>)
    ELSE environment_add(request, <<>>, plus)

method_unset_environment(bus, sender, allow, first) ==
    LET request == [Op("UnsetEnvironment", bus, sender, allow)
                        EXCEPT !.first = first]
        keep == UNCHANGED manager_vars
    IN
    IF ~allow
    THEN keep /\ Setting(request, Fault("AccessDenied"), <<>>, <<"check">>)
    ELSE \E readok \in BOOLEAN :
    IF ~readok
    THEN keep /\ Setting(request, Fault("EBADMSG"), <<>>, <<"check">>)
    ELSE LET minus == first IN
    IF ~strv_env_name_or_assignment_is_valid(minus)
    THEN keep /\ Setting(request, Fault("InvalidArguments"), <<>>, <<"check">>)
    ELSE environment_add(request, minus, <<>>)

\* first and second are the two arrays of the message, in the order of the
\* method's signature: the names to unset, then the assignments to set
method_unset_and_set_environment(bus, sender, allow, first, second) ==
    LET request == [Op("UnsetAndSetEnvironment", bus, sender, allow)
                        EXCEPT !.first = first, !.second = second]
        keep == UNCHANGED manager_vars
    IN
    IF ~allow
    THEN keep /\ Setting(request, Fault("AccessDenied"), <<>>, <<"check">>)
    ELSE \E readok \in BOOLEAN :
    IF ~readok
    THEN keep /\ Setting(request, Fault("EBADMSG"), <<>>, <<"check">>)
    ELSE \* the first array is read into plus, the second into minus
         LET plus == first
             minus == second IN
    IF ~strv_env_is_valid(plus)
    THEN keep /\ Setting(request, Fault("InvalidArguments"), <<>>, <<"check">>)
    ELSE IF ~strv_env_name_or_assignment_is_valid(minus)
    THEN keep /\ Setting(request, Fault("InvalidArguments"), <<>>, <<"check">>)
    ELSE environment_add(request, minus, plus)

SetEnvironment ==
    /\ running
    /\ \E bus \in OpenBuses : \E sender \in Senders(bus, api_bus) :
       \E allow \in BOOLEAN : \E first \in EnvLists :
           method_set_environment(bus, sender, allow, first)

UnsetEnvironment ==
    /\ running
    /\ \E bus \in OpenBuses : \E sender \in Senders(bus, api_bus) :
       \E allow \in BOOLEAN : \E first \in EnvLists :
           method_unset_environment(bus, sender, allow, first)

UnsetAndSetEnvironment ==
    /\ running
    /\ \E bus \in OpenBuses : \E sender \in Senders(bus, api_bus) :
       \E allow \in BOOLEAN : \E first \in EnvLists : \E second \in EnvLists :
           method_unset_and_set_environment(bus, sender, allow, first, second)

(***************************************************************************)
(* Handlers that resolve a unit or a job.                                  *)
(***************************************************************************)
\* manager_get_unit(): the loaded unit of that name, or none
manager_get_unit(name) == IF name \in units THEN name ELSE NoUnit

\* manager_get_unit_by_pid(): the loaded unit the process belongs to, or none
manager_get_unit_by_pid(pid) == manager_get_unit(unit_of_pid(pid))

\* manager_get_job(): the installed jobs of that id (one or none)
manager_get_job(id) == {j \in jobs : j.id = id}

Job(id, unit, type, reload_if_possible) ==
    [id |-> id, unit |-> unit, type |-> type,
     reload_if_possible |-> reload_if_possible]

\* what stays as it is in a handler that only answers
Answer(request, result, wire, calls) ==
    /\ op' = request
    /\ trace' = calls
    /\ outcome' = result
    /\ sent' = wire
    /\ ret' = 0
    /\ UNCHANGED running_as
    /\ UNCHANGED boot_vars
    /\ UNCHANGED unit_vars
    /\ UNCHANGED manager_vars
    /\ UNCHANGED conn_vars
    /\ UNCHANGED tracker_vars
    /\ UNCHANGED <<subscribed, exit_code, running>>

\* method_get_unit() that loads the unit it does not find
method_get_unit_loading(bus, sender, name, allow, ok) ==
    LET u == name
        request == Request("GetUnit", bus, sender, allow, name, 0)
    IN /\ units' = units \cup {name}
       /\ UNCHANGED <<jobs, next_job>>
       /\ IF ~allow
          THEN Answer(request, Fault("AccessDenied"), <<>>,
                      <<"lookup", "check">>)
          ELSE IF ~ok
          THEN Answer(request, Fault("ENOMEM"), <<>>,
                      <<"lookup", "check">>)
          ELSE Answer(request, Reply(u), <<Send(bus, sender, SyncReply, 0)>>,
                      <<"lookup", "check">>)

method_get_unit(bus, sender, name, allow, ok) ==
    LET u == manager_get_unit(name)
        request == Request("GetUnit", bus, sender, allow, name, 0)
    IN /\ UNCHANGED core_vars
       /\ IF u = NoUnit
          THEN Answer(request, Fault("NoSuchUnit"), <<>>,
                      <<"lookup">>)
          ELSE IF ~allow
          THEN Answer(request, Fault("AccessDenied"), <<>>,
                      <<"lookup", "check">>)
          ELSE IF ~ok
          THEN Answer(request, Fault("ENOMEM"), <<>>,
                      <<"lookup", "check">>)
          ELSE Answer(request, Reply(u), <<Send(bus, sender, SyncReply, 0)>>,
                      <<"lookup", "check">>)

method_get_unit_by_pid(bus, sender, pid, caller, pidok, allow, ok) ==
    LET p == IF pid = 0 THEN caller ELSE pid
        u == manager_get_unit_by_pid(p)
        request == Request("GetUnitByPID", bus, sender, allow, "", pid)
    IN /\ UNCHANGED core_vars
       /\ IF pid = 0 /\ ~pidok
          THEN \* sd_bus_get_owner_pid() fails
               Answer(request, Fault("ENXIO"), <<>>,
                      <<>>)
          ELSE IF u = NoUnit
          THEN Answer(request, Fault("NoUnitForPID"), <<>>,
                      <<"lookup">>)
          ELSE IF ~allow
          THEN Answer(request, Fault("AccessDenied"), <<>>,
                      <<"lookup", "check">>)
          ELSE IF ~ok
          THEN Answer(request, Fault("ENOMEM"), <<>>,
                      <<"lookup", "check">>)
          ELSE Answer(request, Reply(u), <<Send(bus, sender, SyncReply, 0)>>,
                      <<"lookup", "check">>)

\* manager_load_unit(): the unit of that name, loaded now if it was not, or
\* the error of the loader
manager_load_unit(name, loadok) ==
    IF name \in units THEN [r |-> 0, units |-> units]
    ELSE IF loadok THEN [r |-> 0, units |-> units \cup {name}]
    ELSE [r |-> -22, units |-> units]

method_load_unit(bus, sender, name, loadok, allow, ok) ==
    LET l == manager_load_unit(name, loadok)
        request == Request("LoadUnit", bus, sender, allow, name, 0)
    IN /\ units' = l.units
       /\ UNCHANGED <<jobs, next_job>>
       /\ IF l.r < 0
          THEN Answer(request, Fault("LoadFailed"), <<>>,
                      <<"load">>)
          ELSE IF ~allow
          THEN Answer(request, Fault("AccessDenied"), <<>>,
                      <<"load", "check">>)
          ELSE IF ~ok
          THEN Answer(request, Fault("ENOMEM"), <<>>,
                      <<"load", "check">>)
          ELSE Answer(request, Reply(name), <<Send(bus, sender, SyncReply, 0)>>,
                      <<"load", "check">>)

method_get_job(bus, sender, id, allow, ok) ==
    LET j == manager_get_job(id)
        request == Request("GetJob", bus, sender, allow, "", id)
    IN /\ UNCHANGED core_vars
       /\ IF j = {}
          THEN Answer(request, Fault("NoSuchJob"), <<>>,
                      <<"lookup">>)
          ELSE IF ~allow
          THEN Answer(request, Fault("AccessDenied"), <<>>,
                      <<"lookup", "check">>)
          ELSE IF ~ok
          THEN Answer(request, Fault("ENOMEM"), <<>>,
                      <<"lookup", "check">>)
          ELSE Answer(request, JobReply(id), <<Send(bus, sender, SyncReply, 0)>>,
                      <<"lookup", "check">>)

\* method_cancel_job() that cancels every job of the manager
method_cancel_job_all(bus, sender, id, allow) ==
    LET j == manager_get_job(id)
        request == Request("CancelJob", bus, sender, allow, "", id)
    IN /\ UNCHANGED <<units, next_job>>
       /\ IF j = {}
          THEN UNCHANGED jobs /\ Answer(request, Fault("NoSuchJob"), <<>>,
                      <<"lookup">>)
          ELSE IF ~allow
          THEN UNCHANGED jobs /\ Answer(request, Fault("AccessDenied"), <<>>,
                      <<"lookup", "check">>)
          ELSE /\ jobs' = {}
               /\ Answer(request, Reply(""), <<Send(bus, sender, SyncReply, 0)>>,
                      <<"lookup", "check", "cancel">>)

method_cancel_job(bus, sender, id, allow) ==
    LET j == manager_get_job(id)
        request == Request("CancelJob", bus, sender, allow, "", id)
    IN /\ UNCHANGED <<units, next_job>>
       /\ IF j = {}
          THEN UNCHANGED jobs /\ Answer(request, Fault("NoSuchJob"), <<>>,
                      <<"lookup">>)
          ELSE IF ~allow
          THEN UNCHANGED jobs /\ Answer(request, Fault("AccessDenied"), <<>>,
                      <<"lookup", "check">>)
          ELSE \* job_finish_and_invalidate(j, JOB_CANCELED, true)
               /\ jobs' = jobs \ j
               /\ Answer(request, Reply(""), <<Send(bus, sender, SyncReply, 0)>>,
                      <<"lookup", "check", "cancel">>)

\* bus_unit_method_start_generic(): the access check on the unit, then the
\* job is queued and its path returned
bus_unit_method_start_generic(request, u, job_type, reload_if_possible, allow, calls) ==
    IF ~allow
    THEN /\ UNCHANGED <<jobs, next_job>>
         /\ Answer(request, Fault("AccessDenied"), <<>>, calls \o <<"check">>)
    ELSE /\ jobs' = jobs \cup {Job(next_job, u, job_type, reload_if_possible)}
         /\ next_job' = next_job + 1
         /\ Answer(request, JobReply(next_job),
                   <<Send(request.bus, request.sender, SyncReply, 0)>>,
                   calls \o <<"check", "job">>)

method_start_unit_generic(method, bus, sender, name, job_type, reload_if_possible, loadok, allow) ==
    LET l == manager_load_unit(name, loadok)
        request == Request(method, bus, sender, allow, name, 0)
    IN /\ units' = l.units
       /\ IF l.r < 0
          THEN UNCHANGED <<jobs, next_job>> /\ Answer(request, Fault("LoadFailed"), <<>>,
                      <<"load">>)
          ELSE bus_unit_method_start_generic(request, name, job_type,
                                             reload_if_possible, allow,
                                             <<"load">>)

method_start_unit(bus, sender, name, loadok, allow) ==
    method_start_unit_generic("StartUnit", bus, sender, name, "JOB_START",
                              FALSE, loadok, allow)

method_stop_unit(bus, sender, name, loadok, allow) ==
    method_start_unit_generic("StopUnit", bus, sender, name, "JOB_STOP",
                              FALSE, loadok, allow)

method_reload_unit(bus, sender, name, loadok, allow) ==
    method_start_unit_generic("ReloadUnit", bus, sender, name, "JOB_RELOAD",
                              FALSE, loadok, allow)

method_restart_unit(bus, sender, name, loadok, allow) ==
    method_start_unit_generic("RestartUnit", bus, sender, name, "JOB_RESTART",
                              FALSE, loadok, allow)

\* method_try_restart_unit() that restarts a unit also when it is not running
method_try_restart_unit_always(bus, sender, name, loadok, allow) ==
    method_start_unit_generic("TryRestartUnit", bus, sender, name,
                              "JOB_RESTART", FALSE, loadok, allow)

method_try_restart_unit(bus, sender, name, loadok, allow) ==
    method_start_unit_generic("TryRestartUnit", bus, sender, name,
                              "JOB_TRY_RESTART", FALSE, loadok, allow)

method_reload_or_restart_unit(bus, sender, name, loadok, allow) ==
    method_start_unit_generic("ReloadOrRestartUnit", bus, sender, name,
                              "JOB_RESTART", TRUE, loadok, allow)

method_reload_or_try_restart_unit(bus, sender, name, loadok, allow) ==
    method_start_unit_generic("ReloadOrTryRestartUnit", bus, sender, name,
                              "JOB_TRY_RESTART", TRUE, loadok, allow)

\* a handler that looks the unit up and hands it to an operation of the unit:
\* the access check on the unit, then the operation, which can fail
method_unit_generic(method, bus, sender, name, call, allow, r) ==
    LET u == manager_get_unit(name)
        request == [Request(method, bus, sender, allow, name, 0)
                        EXCEPT !.r = IF u # NoUnit /\ allow THEN r ELSE 0]
    IN /\ UNCHANGED core_vars
       /\ IF u = NoUnit
          THEN Answer(request, Fault("NoSuchUnit"), <<>>,
                      <<"lookup">>)
          ELSE IF ~allow
          THEN Answer(request, Fault("AccessDenied"), <<>>,
                      <<"lookup", "check">>)
          ELSE IF r < 0
          THEN Answer(request, Errno(r), <<>>,
                      <<"lookup", "check", call>>)
          ELSE Answer(request, Reply(""), <<Send(bus, sender, SyncReply, 0)>>,
                      <<"lookup", "check", call>>)

method_kill_unit(bus, sender, name, allow, r) ==
    method_unit_generic("KillUnit", bus, sender, name, "kill", allow, r)

method_reset_failed_unit(bus, sender, name, allow, r) ==
    method_unit_generic("ResetFailedUnit", bus, sender, name, "reset_failed",
                        allow, r)

method_set_unit_properties(bus, sender, name, allow, r) ==
    method_unit_generic("SetUnitProperties", bus, sender, name, "properties",
                        allow, r)

GetUnit ==
    /\ running
    /\ \E bus \in OpenBuses : \E sender \in Senders(bus, api_bus) :
       \E name \in UnitNames : \E allow \in BOOLEAN : \E ok \in BOOLEAN :
           method_get_unit(bus, sender, name, allow, ok)

GetUnitByPID ==
    /\ running
    /\ \E bus \in OpenBuses : \E sender \in Senders(bus, api_bus) :
       \E pid \in Pids : \E allow \in BOOLEAN : \E ok \in BOOLEAN :
       \* the caller's own pid is asked for, and may be unknown, when pid = 0
       \E caller \in (IF pid = 0 THEN Pids \ {0} ELSE {pid}) :
       \E pidok \in (IF pid = 0 THEN BOOLEAN ELSE {TRUE}) :
           method_get_unit_by_pid(bus, sender, pid, caller, pidok, allow, ok)

LoadUnit ==
    /\ running
    /\ \E bus \in OpenBuses : \E sender \in Senders(bus, api_bus) :
       \E name \in UnitNames : \E loadok \in BOOLEAN :
       \E allow \in BOOLEAN : \E ok \in BOOLEAN :
           method_load_unit(bus, sender, name, loadok, allow, ok)

GetJob ==
    /\ running
    /\ \E bus \in OpenBuses : \E sender \in Senders(bus, api_bus) :
       \E id \in 1..(MaxJobs + 1) : \E allow \in BOOLEAN : \E ok \in BOOLEAN :
           method_get_job(bus, sender, id, allow, ok)

CancelJob ==
    /\ running
    /\ \E bus \in OpenBuses : \E sender \in Senders(bus, api_bus) :
       \E id \in 1..(MaxJobs + 1) : \E allow \in BOOLEAN :
           method_cancel_job(bus, sender, id, allow)

StartUnit ==
    /\ running
    /\ next_job <= MaxJobs
    /\ \E bus \in OpenBuses : \E sender \in Senders(bus, api_bus) :
       \E name \in UnitNames : \E loadok \in BOOLEAN : \E allow \in BOOLEAN :
           method_start_unit(bus, sender, name, loadok, allow)

StopUnit ==
    /\ running
    /\ next_job <= MaxJobs
    /\ \E bus \in OpenBuses : \E sender \in Senders(bus, api_bus) :
       \E name \in UnitNames : \E loadok \in BOOLEAN : \E allow \in BOOLEAN :
           method_stop_unit(bus, sender, name, loadok, allow)

ReloadUnit ==
    /\ running
    /\ next_job <= MaxJobs
    /\ \E bus \in OpenBuses : \E sender \in Senders(bus, api_bus) :
       \E name \in UnitNames : \E allow \in BOOLEAN :
       \E loadok \in (IF name \in units THEN {TRUE} ELSE BOOLEAN) :
           method_reload_unit(bus, sender, name, loadok, allow)

RestartUnit ==
    /\ running
    /\ next_job <= MaxJobs
    /\ \E bus \in OpenBuses : \E sender \in Senders(bus, api_bus) :
       \E name \in UnitNames : \E allow \in BOOLEAN :
       \E loadok \in (IF name \in units THEN {TRUE} ELSE BOOLEAN) :
           method_restart_unit(bus, sender, name, loadok, allow)

TryRestartUnit ==
    /\ running
    /\ next_job <= MaxJobs
    /\ \E bus \in OpenBuses : \E sender \in Senders(bus, api_bus) :
       \E name \in UnitNames : \E allow \in BOOLEAN :
       \E loadok \in (IF name \in units THEN {TRUE} ELSE BOOLEAN) :
           method_try_restart_unit(bus, sender, name, loadok, allow)

ReloadOrRestartUnit ==
    /\ running
    /\ next_job <= MaxJobs
    /\ \E bus \in OpenBuses : \E sender \in Senders(bus, api_bus) :
       \E name \in UnitNames : \E allow \in BOOLEAN :
       \E loadok \in (IF name \in units THEN {TRUE} ELSE BOOLEAN) :
           method_reload_or_restart_unit(bus, sender, name, loadok, allow)

ReloadOrTryRestartUnit ==
    /\ running
    /\ next_job <= MaxJobs
    /\ \E bus \in OpenBuses : \E sender \in Senders(bus, api_bus) :
       \E name \in UnitNames : \E allow \in BOOLEAN :
       \E loadok \in (IF name \in units THEN {TRUE} ELSE BOOLEAN) :
           method_reload_or_try_restart_unit(bus, sender, name, loadok, allow)

KillUnit ==
    /\ running
    /\ \E bus \in OpenBuses : \E sender \in Senders(bus, api_bus) :
       \E name \in UnitNames : \E allow \in BOOLEAN :
       \E r \in (IF name \in units /\ allow THEN {0, -5} ELSE {0}) :
           method_kill_unit(bus, sender, name, allow, r)

ResetFailedUnit ==
    /\ running
    /\ \E bus \in OpenBuses : \E sender \in Senders(bus, api_bus) :
       \E name \in UnitNames : \E allow \in BOOLEAN :
       \E r \in (IF name \in units /\ allow THEN {0, -5} ELSE {0}) :
           method_reset_failed_unit(bus, sender, name, allow, r)

SetUnitProperties ==
    /\ running
    /\ \E bus \in OpenBuses : \E sender \in Senders(bus, api_bus) :
       \E name \in UnitNames : \E allow \in BOOLEAN :
       \E r \in (IF name \in units /\ allow THEN {0, -5} ELSE {0}) :
           method_set_unit_properties(bus, sender, name, allow, r)

(***************************************************************************)
(* Properties of the Manager interface.                                    *)
(***************************************************************************)
LogLevels == {"info", "debug"}
LogTargets == {"journal", "console"}
\* strings a caller may write to LogLevel or LogTarget
LogStrings == {"info", "debug", "journal", "console", "bogus"}
\* watchdog timeouts a caller may write
Usecs == {0, 10, 20}

\* Manager.n_installed_jobs: the jobs installed so far
n_installed_jobs == next_job - 1

\* the double property_get_progress() computes, in percent; the quotient of a
\* division by zero is not a number
Double(num, den) ==
    IF den = 0 THEN [kind |-> "reply", val |-> "nan", id |-> 0]
    ELSE [kind |-> "reply", val |-> "d", id |-> (100 * num) \div den]
property_get_progress ==
    IF finished THEN Double(1, 1)
    ELSE Double(n_installed_jobs - Cardinality(jobs), n_installed_jobs)

\* a property reply holding a string or a number
String(v) == [kind |-> "reply", val |-> v, id |-> 0]
Number(n) == [kind |-> "reply", val |-> "u", id |-> n]

Properties ==
    {"Version", "Features", "Virtualization", "Tainted", "LogLevel",
     "LogTarget", "NNames", "NJobs", "NInstalledJobs", "Progress",
     "RuntimeWatchdogUSec", "ShutdownWatchdogUSec", "FirmwareTimestamp",
     "KernelTimestamp", "DefaultStandardOutput", "DefaultStandardError"}

\* the getters; seen is what the getter finds outside the manager
property_get(property, seen) ==
    CASE property = "Version" -> String("208")
      [] property = "Features" -> String("+PAM")
      [] property = "Virtualization" -> String(seen)
      [] property = "Tainted" -> String(seen)
      [] property = "LogLevel" -> String(log_level)
      [] property = "LogTarget" -> String(log_target)
      [] property = "NNames" -> Number(Cardinality(units))
      [] property = "NJobs" -> Number(Cardinality(jobs))
      [] property = "NInstalledJobs" -> Number(n_installed_jobs)
      [] property = "Progress" -> property_get_progress
      [] property = "RuntimeWatchdogUSec" -> Number(runtime_watchdog)
      [] property = "ShutdownWatchdogUSec" -> Number(shutdown_watchdog)
      [] property = "FirmwareTimestamp" -> Number(firmware_timestamp)
      [] property = "KernelTimestamp" -> Number(firmware_timestamp)
      [] property = "DefaultStandardOutput" -> String(default_std_output)
      [] property = "DefaultStandardError" -> String(default_std_output)

\* what a property access leaves as it is
Access(request, result, wire) ==
    /\ op' = request
    /\ outcome' = result
    /\ sent' = wire
    /\ trace' = <<>>
    /\ ret' = 0
    /\ UNCHANGED conn_vars
    /\ UNCHANGED tracker_vars
    /\ UNCHANGED core_vars
    /\ UNCHANGED <<subscribed, exit_code, running, running_as>>
    /\ UNCHANGED boot_vars
    /\ UNCHANGED unit_vars
    /\ UNCHANGED <<switch_root, switch_root_init, environment, finished>>

\* getters of which the one of LogLevel raises the level it reports
Get_resetting ==
    /\ running
    /\ \E bus \in OpenBuses : \E sender \in Senders(bus, api_bus) :
       \E property \in Properties :
       \E seen \in (IF property = "Virtualization" THEN {"", "kvm"}
                    ELSE IF property = "Tainted" THEN {"", "split-usr"}
                    ELSE {""}) :
       \E ok \in BOOLEAN :
           LET request == Request("Get", bus, sender, TRUE, property, 0) IN
           /\ log_level' = IF property = "LogLevel" THEN "debug" ELSE log_level
           /\ UNCHANGED <<log_target, runtime_watchdog, shutdown_watchdog>>
           /\ IF ~ok
              THEN Access(request, Fault("ENOMEM"), <<>>)
              ELSE Access(request, property_get(property, seen),
                          <<Send(bus, sender, SyncReply, 0)>>)

Get ==
    /\ running
    /\ \E bus \in OpenBuses : \E sender \in Senders(bus, api_bus) :
       \E property \in Properties :
       \E seen \in (IF property = "Virtualization" THEN {"", "kvm"}
                    ELSE IF property = "Tainted" THEN {"", "split-usr"}
                    ELSE {""}) :
       \E ok \in BOOLEAN :
           LET request == Request("Get", bus, sender, TRUE, property, 0) IN
           /\ UNCHANGED <<log_level, log_target, runtime_watchdog, shutdown_watchdog>>
           /\ IF ~ok
              THEN Access(request, Fault("ENOMEM"), <<>>)
              ELSE Access(request, property_get(property, seen),
                          <<Send(bus, sender, SyncReply, 0)>>)

\* log_set_max_level_from_string(), log_set_target_from_string(): -EINVAL,
\* reported as InvalidArguments, for a string that names no level or target
property_set_log_level(request, t) ==
    \E readok \in BOOLEAN :
    IF ~readok
    THEN UNCHANGED log_level /\ Access(request, Fault("EBADMSG"), <<>>)
    ELSE IF t \notin LogLevels
    THEN UNCHANGED log_level /\ Access(request, Fault("InvalidArguments"), <<>>)
    ELSE log_level' = t /\ Access(request, Reply(""),
                                  <<Send(request.bus, request.sender, SyncReply, 0)>>)

property_set_log_target(request, t) ==
    \E readok \in BOOLEAN :
    IF ~readok
    THEN UNCHANGED log_target /\ Access(request, Fault("EBADMSG"), <<>>)
    ELSE IF t \notin LogTargets
    THEN UNCHANGED log_target /\ Access(request, Fault("InvalidArguments"), <<>>)
    ELSE log_target' = t /\ Access(request, Reply(""),
                                   <<Send(request.bus, request.sender, SyncReply, 0)>>)

\* the value is read into Manager.runtime_watchdog itself, then the watchdog
\* device is set up, which may fail
property_set_runtime_watchdog(request, v) ==
    \E readok \in BOOLEAN :
    IF ~readok
    THEN UNCHANGED runtime_watchdog /\ Access(request, Fault("EBADMSG"), <<>>)
    ELSE /\ runtime_watchdog' = v
         /\ \E r \in {0, -19} :
            IF r < 0
            THEN Access(request, Fault("ENODEV"), <<>>)
            ELSE Access(request, Reply(""),
                        <<Send(request.bus, request.sender, SyncReply, 0)>>)

\* bus_property_set_usec(): the value is read into the field
bus_property_set_usec(request, v) ==
    \E readok \in BOOLEAN :
    IF ~readok
    THEN UNCHANGED shutdown_watchdog /\ Access(request, Fault("EBADMSG"), <<>>)
    ELSE /\ shutdown_watchdog' = v
         /\ Access(request, Reply(""),
                   <<Send(request.bus, request.sender, SyncReply, 0)>>)

Set ==
    /\ running
    /\ \E bus \in OpenBuses : \E sender \in Senders(bus, api_bus) :
       \/ \E t \in LogStrings :
          /\ UNCHANGED <<log_target, runtime_watchdog, shutdown_watchdog>>
          /\ property_set_log_level(
                 [Request("Set", bus, sender, TRUE, "LogLevel", 0)
                      EXCEPT !.arg2 = t], t)
       \/ \E t \in LogStrings :
          /\ UNCHANGED <<log_level, runtime_watchdog, shutdown_watchdog>>
          /\ property_set_log_target(
                 [Request("Set", bus, sender, TRUE, "LogTarget", 0)
                      EXCEPT !.arg2 = t], t)
       \/ \E v \in Usecs :
          /\ UNCHANGED <<log_level, log_target, shutdown_watchdog>>
          /\ property_set_runtime_watchdog(
                 Request("Set", bus, sender, TRUE, "RuntimeWatchdogUSec", v), v)
       \/ \E v \in Usecs :
          /\ UNCHANGED <<log_level, log_target, runtime_watchdog>>
          /\ bus_property_set_usec(
                 Request("Set", bus, sender, TRUE, "ShutdownWatchdogUSec", v), v)

\* startup is over once no job is left: the finish timestamp is taken
StartupFinished ==
    /\ running
    /\ ~finished
    /\ jobs = {}
    /\ finished' = TRUE
    /\ op' = Op("StartupFinished", NoBus, "", TRUE)
    /\ outcome' = NoOutcome
    /\ sent' = <<>>
    /\ trace' = <<>>
    /\ ret' = 0
    /\ UNCHANGED conn_vars
    /\ UNCHANGED tracker_vars
    /\ UNCHANGED core_vars
    /\ UNCHANGED <<subscribed, exit_code, running, running_as>>
    /\ UNCHANGED boot_vars
    /\ UNCHANGED unit_vars
    /\ UNCHANGED <<switch_root, switch_root_init, environment, log_level,
                   log_target, runtime_watchdog, shutdown_watchdog>>

(***************************************************************************)
(* Transient units.                                                        *)
(***************************************************************************)
\* names a StartTransientUnit request can carry, and job mode strings
TransientNames == UnitNames \cup {"a.device", "a"}
JobModeStrings == {"replace", "bogus"}
\* what manager_load_unit() can come to for a unit that is not loaded yet
LoadResults == {"UNIT_LOADED", "UNIT_NOT_FOUND", "error"}
\* where the set-up of a transient unit can fail
TransientSteps == {"ok", "transient", "properties", "load", "job"}

\* unit_name_to_type(): the type the suffix of the name stands for
unit_name_to_type(name) ==
    IF name \in {"a.service", "b.service"} THEN "UNIT_SERVICE"
    ELSE IF name = "a.device" THEN "UNIT_DEVICE"
    ELSE "_UNIT_TYPE_INVALID"

\* unit_vtable[t]->can_transient
can_transient(t) == t = "UNIT_SERVICE"

job_mode_from_string(s) ==
    IF s = "replace" THEN "JOB_REPLACE" ELSE "_JOB_MODE_INVALID"

\* Unit.load_state of a unit of the manager
load_state(u, missing) ==
    IF u \in missing THEN "UNIT_NOT_FOUND" ELSE "UNIT_LOADED"

\* what stays as it is in StartTransientUnit
Transient(request, result, wire, calls) ==
    /\ UNCHANGED aliases
    /\ op' = request
    /\ trace' = calls
    /\ outcome' = result
    /\ sent' = wire
    /\ ret' = 0
    /\ UNCHANGED running_as
    /\ UNCHANGED boot_vars
    /\ UNCHANGED manager_vars
    /\ UNCHANGED conn_vars
    /\ UNCHANGED tracker_vars
    /\ UNCHANGED <<subscribed, exit_code, running>>

\* method_start_transient_unit() that takes a unit nothing found on disk for
\* its own even if another unit refers to it
method_start_transient_unit_unreferenced(bus, sender, name, smode, allow, load, step) ==
    LET request == [Request("StartTransientUnit", bus, sender, allow, name, 0)
                        EXCEPT !.arg2 = smode]
        t == unit_name_to_type(name)
        mode == job_mode_from_string(smode)
        l == manager_load_unit(name, load # "error")
        missing == IF name \notin units /\ load = "UNIT_NOT_FOUND"
                   THEN not_found \cup {name} ELSE not_found
        keep == UNCHANGED <<units, jobs, next_job, not_found, referenced_by,
                            transient>>
    IN IF t = "_UNIT_TYPE_INVALID" \/ ~can_transient(t)
          \/ mode = "_JOB_MODE_INVALID"
       THEN keep /\ Transient(request, Fault("InvalidArgs"), <<>>, <<>>)
       ELSE IF ~allow
       THEN keep /\ Transient(request, Fault("AccessDenied"), <<>>, <<"check">>)
       ELSE IF l.r < 0
       THEN keep /\ Transient(request, Fault("LoadFailed"), <<>>,
                              <<"check", "load">>)
       ELSE IF load_state(name, missing) # "UNIT_NOT_FOUND"
       THEN /\ units' = l.units
            /\ not_found' = missing
            /\ UNCHANGED <<jobs, next_job, referenced_by, transient>>
            /\ Transient(request, Fault("UnitExists"), <<>>,
                         <<"check", "load">>)
       ELSE /\ units' = l.units
            /\ UNCHANGED referenced_by
            /\ IF step = "transient"
               THEN /\ not_found' = missing
                    /\ UNCHANGED <<jobs, next_job, transient>>
                    /\ Transient(request, Fault("ENOMEM"), <<>>,
                                 <<"check", "load", "transient">>)
               ELSE /\ transient' = transient \cup {name}
                    /\ not_found' = missing \ {name}
                    /\ IF step = "properties"
                       THEN /\ UNCHANGED <<jobs, next_job>>
                            /\ Transient(request, Fault("ENOMEM"), <<>>,
                                   <<"check", "load", "transient",
                                     "properties">>)
                       ELSE IF step = "load"
                       THEN /\ UNCHANGED <<jobs, next_job>>
                            /\ Transient(request, Fault("ENOMEM"), <<>>,
                                   <<"check", "load", "transient",
                                     "properties", "unit_load">>)
                       ELSE IF step = "job"
                       THEN /\ UNCHANGED <<jobs, next_job>>
                            /\ Transient(request, Fault("ENOMEM"), <<>>,
                                   <<"check", "load", "transient",
                                     "properties", "unit_load", "job">>)
                       ELSE /\ next_job <= MaxJobs
                            /\ jobs' = jobs \cup {Job(next_job, name, "JOB_START", FALSE)}
                            /\ next_job' = next_job + 1
                            /\ Transient(request, JobReply(next_job),
                                   <<Send(bus, sender, SyncReply, 0)>>,
                                   <<"check", "load", "transient",
                                     "properties", "unit_load", "job">>)

\* method_start_transient_unit(): the arguments, the access check, the load
\* of the name; a unit that loaded or that another unit refers to exists
\* already, any other is made transient, given its properties, loaded and
\* started
method_start_transient_unit(bus, sender, name, smode, allow, load, step) ==
    LET request == [Request("StartTransientUnit", bus, sender, allow, name, 0)
                        EXCEPT !.arg2 = smode]
        t == unit_name_to_type(name)
        mode == job_mode_from_string(smode)
        l == manager_load_unit(name, load # "error")
        missing == IF name \notin units /\ load = "UNIT_NOT_FOUND"
                   THEN not_found \cup {name} ELSE not_found
        keep == UNCHANGED <<units, jobs, next_job, not_found, referenced_by,
                            transient>>
    IN IF t = "_UNIT_TYPE_INVALID" \/ ~can_transient(t)
          \/ mode = "_JOB_MODE_INVALID"
       THEN keep /\ Transient(request, Fault("InvalidArgs"), <<>>, <<>>)
       ELSE IF ~allow
       THEN keep /\ Transient(request, Fault("AccessDenied"), <<>>, <<"check">>)
       ELSE IF l.r < 0
       THEN keep /\ Transient(request, Fault("LoadFailed"), <<>>,
                              <<"check", "load">>)
       ELSE IF load_state(name, missing) # "UNIT_NOT_FOUND"
               \/ name \in referenced_by
       THEN /\ units' = l.units
            /\ not_found' = missing
            /\ UNCHANGED <<jobs, next_job, referenced_by, transient>>
            /\ Transient(request, Fault("UnitExists"), <<>>,
                         <<"check", "load">>)
       ELSE /\ units' = l.units
            /\ UNCHANGED referenced_by
            /\ IF step = "transient"
               THEN \* unit_make_transient() fails
                    /\ not_found' = missing
                    /\ UNCHANGED <<jobs, next_job, transient>>
                    /\ Transient(request, Fault("ENOMEM"), <<>>,
                                 <<"check", "load", "transient">>)
               ELSE /\ transient' = transient \cup {name}
                    /\ not_found' = missing \ {name}
                    /\ IF step = "properties"
                       THEN \* bus_unit_set_properties() fails
                            /\ UNCHANGED <<jobs, next_job>>
                            /\ Transient(request, Fault("ENOMEM"), <<>>,
                                   <<"check", "load", "transient",
                                     "properties">>)
                       ELSE IF step = "load"
                       THEN \* unit_load() fails
                            /\ UNCHANGED <<jobs, next_job>>
                            /\ Transient(request, Fault("ENOMEM"), <<>>,
                                   <<"check", "load", "transient",
                                     "properties", "unit_load">>)
                       ELSE IF step = "job"
                       THEN \* bus_unit_queue_job() fails
                            /\ UNCHANGED <<jobs, next_job>>
                            /\ Transient(request, Fault("ENOMEM"), <<>>,
                                   <<"check", "load", "transient",
                                     "properties", "unit_load", "job">>)
                       ELSE /\ next_job <= MaxJobs
                            /\ jobs' = jobs \cup {Job(next_job, name, "JOB_START", FALSE)}
                            /\ next_job' = next_job + 1
                            /\ Transient(request, JobReply(next_job),
                                   <<Send(bus, sender, SyncReply, 0)>>,
                                   <<"check", "load", "transient",
                                     "properties", "unit_load", "job">>)

StartTransientUnit ==
    /\ running
    /\ \E bus \in OpenBuses : \E sender \in Senders(bus, api_bus) :
       \E name \in TransientNames : \E smode \in JobModeStrings :
       \E allow \in BOOLEAN :
       \E load \in (IF name \in units THEN {"UNIT_LOADED"} ELSE LoadResults) :
       \E step \in TransientSteps :
           method_start_transient_unit(bus, sender, name, smode, allow, load,
                                       step)

\* a loaded unit comes to refer to another unit, which enters the registry
\* if it was not there, found on disk or not
AddDependency ==
    /\ running
    /\ \E u \in units \ not_found : \E other \in UnitNames \ {u} :
       \E found \in (IF other \in units THEN {TRUE} ELSE BOOLEAN) :
           /\ units' = units \cup {other}
           /\ not_found' = IF found THEN not_found ELSE not_found \cup {other}
           /\ referenced_by' = referenced_by \cup {other}
           /\ UNCHANGED <<jobs, next_job, transient>>
           /\ Transient(Request("AddDependency", NoBus, "", TRUE, other, 0),
                        NoOutcome, <<>>, <<>>)


(***************************************************************************)
(* Listings of the units and of the jobs.                                  *)
(***************************************************************************)
\* names a unit can have besides its id
AliasNames == {"x.service", "y.service"}

\* the keys of Manager.units and the unit a key stands for
unit_keys == units \cup {a.name : a \in aliases}
UnitOf(k) ==
    IF k \in units THEN k ELSE (CHOOSE a \in aliases : a.name = k).id

\* Unit.job: the job of a unit, the one installed last, or none
NoJob == Job(0, NoUnit, "", FALSE)
unit_job(u) ==
    LET js == {j \in jobs : j.unit = u} IN
    IF js = {} THEN NoJob
    ELSE CHOOSE j \in js : \A o \in js : o.id <= j.id

job_type_to_string(t) ==
    CASE t = "JOB_START" -> "start"
      [] t = "JOB_STOP" -> "stop"
      [] t = "JOB_RELOAD" -> "reload"
      [] t = "JOB_RESTART" -> "restart"
      [] t = "JOB_TRY_RESTART" -> "try-restart"
      [] OTHER -> "invalid"

unit_load_state_to_string(l) ==
    IF l = "UNIT_NOT_FOUND" THEN "not-found" ELSE "loaded"

job_dbus_path(id) ==
    CASE id = 1 -> "/job/1"
      [] id = 2 -> "/job/2"
      [] id = 3 -> "/job/3"
      [] OTHER -> "/job/n"

\* one entry of the reply of ListUnits
UnitRecord(u) ==
    LET j == unit_job(u) IN
    [id |-> u,
     load_state |-> unit_load_state_to_string(load_state(u, not_found)),
     unit_path |-> u,
     job_id |-> IF j # NoJob THEN j.id ELSE 0,
     job_type |-> IF j # NoJob THEN job_type_to_string(j.type) ELSE "",
     job_path |-> IF j # NoJob THEN job_dbus_path(j.id) ELSE "/"]

\* one entry of the reply of ListJobs
JobRecord(j) ==
    [id |-> j.id, unit |-> j.unit, type |-> job_type_to_string(j.type),
     job_path |-> job_dbus_path(j.id), unit_path |-> j.unit]

\* the entries appended for the keys K, each with the number of times it was
\* appended
UnitRecords(K) ==
    LET recs == {UnitRecord(UnitOf(k)) : k \in K} IN
    [r \in recs |-> Cardinality({k \in K : UnitRecord(UnitOf(k)) = r})]
JobRecords(J) ==
    LET recs == {JobRecord(j) : j \in J} IN
    [r \in recs |-> Cardinality({j \in J : JobRecord(j) = r})]

\* the reply with a list of entries
Listing(signature, records) ==
    [kind |-> "reply", val |-> signature, id |-> Cardinality(DOMAIN records),
     records |-> records]

\* method_list_units() that appends an entry for every key of the units
method_list_units_every_key(bus, sender, allow, ok) ==
    LET request == Op("ListUnits", bus, sender, allow) IN
    /\ UNCHANGED core_vars
    /\ IF ~allow
       THEN Answer(request, Fault("AccessDenied"), <<>>, <<"check">>)
       ELSE IF ~ok
       THEN Answer(request, Fault("ENOMEM"), <<>>, <<"check">>)
       ELSE Answer(request,
                   Listing("a(ssssssouso)", UnitRecords(unit_keys)),
                   <<Send(bus, sender, SyncReply, 0)>>, <<"check", "reply">>)

\* method_list_units(): the access check, then one entry for every key of
\* Manager.units that is the id of its unit
method_list_units(bus, sender, allow, ok) ==
    LET request == Op("ListUnits", bus, sender, allow) IN
    /\ UNCHANGED core_vars
    /\ IF ~allow
       THEN Answer(request, Fault("AccessDenied"), <<>>, <<"check">>)
       ELSE IF ~ok
       THEN \* the reply or one of its entries cannot be built
            Answer(request, Fault("ENOMEM"), <<>>, <<"check">>)
       ELSE Answer(request,
                   Listing("a(ssssssouso)",
                           UnitRecords({k \in unit_keys : k = UnitOf(k)})),
                   <<Send(bus, sender, SyncReply, 0)>>, <<"check", "reply">>)

method_list_jobs(bus, sender, allow, ok) ==
    LET request == Op("ListJobs", bus, sender, allow) IN
    /\ UNCHANGED core_vars
    /\ IF ~allow
       THEN Answer(request, Fault("AccessDenied"), <<>>, <<"check">>)
       ELSE IF ~ok
       THEN Answer(request, Fault("ENOMEM"), <<>>, <<"check">>)
       ELSE Answer(request, Listing("a(usssoo)", JobRecords(jobs)),
                   <<Send(bus, sender, SyncReply, 0)>>, <<"check", "reply">>)

ListUnits ==
    /\ running
    /\ \E bus \in OpenBuses : \E sender \in Senders(bus, api_bus) :
       \E allow \in BOOLEAN : \E ok \in BOOLEAN :
           method_list_units(bus, sender, allow, ok)

ListJobs ==
    /\ running
    /\ \E bus \in OpenBuses : \E sender \in Senders(bus, api_bus) :
       \E allow \in BOOLEAN : \E ok \in BOOLEAN :
           method_list_jobs(bus, sender, allow, ok)

\* a loaded unit gets a further name
AddAlias ==
    /\ running
    /\ \E name \in AliasNames \ unit_keys : \E u \in units :
           /\ aliases' = aliases \cup {[name |-> name, id |-> u]}
           /\ UNCHANGED <<not_found, referenced_by, transient>>
           /\ op' = Request("AddAlias", NoBus, "", TRUE, name, 0)
           /\ trace' = <<>>
           /\ outcome' = NoOutcome
           /\ sent' = <<>>
           /\ ret' = 0
           /\ UNCHANGED running_as
           /\ UNCHANGED boot_vars
           /\ UNCHANGED manager_vars
           /\ UNCHANGED conn_vars
           /\ UNCHANGED tracker_vars
           /\ UNCHANGED core_vars
           /\ UNCHANGED <<subscribed, exit_code, running>>

(***************************************************************************)
(* The gateway.                                                            *)
(***************************************************************************)
Next ==
    \/ ConnectPrivate
    \/ ConnectApi
    \/ \E bus \in BusIds : Disconnect(bus)
    \/ Subscribe
    \/ Unsubscribe
    \/ \E name \in ApiSenders : NameOwnerChanged(name)
    \/ Deliver
    \/ Reload
    \/ ReloadFinished
    \/ Reexecute
    \/ Exit
    \/ Reboot
    \/ PowerOff
    \/ Halt
    \/ KExec
    \/ EnableUnitFiles
    \/ DisableUnitFiles
    \/ SetDefaultTarget
    \/ Get
    \/ Set
    \/ StartupFinished
    \/ SwitchRoot
    \/ SetEnvironment
    \/ UnsetEnvironment
    \/ UnsetAndSetEnvironment
    \/ GetUnit
    \/ GetUnitByPID
    \/ LoadUnit
    \/ GetJob
    \/ CancelJob
    \/ StartUnit
    \/ StopUnit
    \/ StartTransientUnit
    \/ AddDependency
    \/ ReloadUnit
    \/ RestartUnit
    \/ TryRestartUnit
    \/ ReloadOrRestartUnit
    \/ ReloadOrTryRestartUnit
    \/ KillUnit
    \/ ResetFailedUnit
    \/ SetUnitProperties
    \/ ListUnits
    \/ ListJobs
    \/ AddAlias

Spec == Init /\ [][Next]_vars

\* the deferred-reply tracker and the connections it depends on
NextTracker ==
    \/ ConnectPrivate
    \/ ConnectApi
    \/ \E bus \in BusIds : Disconnect(bus)
    \/ Reload
    \/ ReloadFinished
    \/ Reexecute
    \/ Exit
    \/ Reboot
    \/ PowerOff
    \/ Halt
    \/ KExec

SpecTracker == Init /\ [][NextTracker]_vars

\* the main loop performs the reload that Manager.exit_code asks for: the
\* reload-finished event is certain to come only while the exit code is still
\* MANAGER_RELOAD
SpecTrackerFair ==
    /\ Init
    /\ [][NextTracker]_vars
    /\ WF_vars(ReloadFinished /\ exit_code = "MANAGER_RELOAD")

\* the subscriber registry and the fan-out of notifications
NextBroadcast ==
    \/ ConnectPrivate
    \/ ConnectApi
    \/ \E bus \in BusIds : Disconnect(bus)
    \/ Subscribe
    \/ Unsubscribe
    \/ \E name \in ApiSenders : NameOwnerChanged(name)
    \/ Deliver

SpecBroadcast == Init /\ [][NextBroadcast]_vars

\* the handlers that resolve units and jobs, called over the API bus
NextLookup ==
    \/ ConnectApi
    \/ GetUnit
    \/ GetUnitByPID
    \/ LoadUnit
    \/ GetJob
    \/ CancelJob
    \/ StartUnit
    \/ StopUnit

SpecLookup == Init /\ [][NextLookup]_vars

\* the unit-file batch operations and the subscribers they notify, callers
\* and subscribers being peers of the API bus
NextUnitFiles ==
    \/ ConnectApi
    \/ Subscribe
    \/ EnableUnitFiles
    \/ DisableUnitFiles
    \/ SetDefaultTarget

SpecUnitFiles == Init /\ [][NextUnitFiles]_vars

\* switch root and the lifecycle requests, the callers being peers of the
\* API bus
NextSettings ==
    \/ ConnectApi
    \/ SwitchRoot
    \/ Exit
    \/ Reboot
    \/ PowerOff
    \/ Halt
    \/ KExec

SpecSettings == Init /\ [][NextSettings]_vars

\* the requests that change the manager environment
NextEnvironment ==
    \/ ConnectApi
    \/ SetEnvironment
    \/ UnsetEnvironment
    \/ UnsetAndSetEnvironment

SpecEnvironment == Init /\ [][NextEnvironment]_vars

\* reading and writing the properties
NextProperties ==
    \/ ConnectApi
    \/ Get
    \/ Set

SpecProperties == Init /\ [][NextProperties]_vars

\* reading the properties while jobs come and go and startup finishes
NextProgress ==
    \/ ConnectApi
    \/ Get
    \/ StartUnit
    \/ CancelJob
    \/ StartupFinished

SpecProgress == Init /\ [][NextProgress]_vars

\* the registry of units alone: loading, references and transient units
NextTransient ==
    \/ ConnectApi
    \/ LoadUnit
    \/ AddDependency
    \/ StartTransientUnit

SpecTransient == Init /\ [][NextTransient]_vars

\* the operations on a unit given by name
NextUnits ==
    \/ ConnectApi
    \/ StartUnit
    \/ StopUnit
    \/ ReloadUnit
    \/ RestartUnit
    \/ TryRestartUnit
    \/ ReloadOrRestartUnit
    \/ ReloadOrTryRestartUnit
    \/ KillUnit
    \/ ResetFailedUnit
    \/ SetUnitProperties

SpecUnits == Init /\ [][NextUnits]_vars

\* the listings: units are loaded and get jobs and names, jobs go away
NextList ==
    \/ ConnectApi
    \/ StartUnit
    \/ StopUnit
    \/ CancelJob
    \/ AddAlias
    \/ ListUnits
    \/ ListJobs

SpecList == Init /\ [][NextList]_vars

(***************************************************************************)
(* Properties of the deferred Reload reply (checked under SpecTracker).    *)
(***************************************************************************)
Pending == queued_message # NoMsg

\* C1: a Reload dispatched while a reply is already held fails with a fault
\* returned to the caller: the process keeps running, no second reply is
\* created and the held reply and its connection stay as they are.
C1_SecondReloadFaults ==
    [][(op'.name = "Reload" /\ op'.allow /\ Pending) =>
          /\ running'
          /\ outcome'.kind = "error"
          /\ queued_message' = queued_message
          /\ queued_message_bus' = queued_message_bus
          /\ live_replies' = live_replies]_vars

\* C2: the reply of an accepted Reload is never sent when the request is
\* accepted; it is sent by the reload-finished event only, once, on the
\* connection the Reload came in on, and the tracker is idle afterwards.
C2_DeferredReplySentOnce ==
    [][/\ op'.name = "Reload" => (sent' = <<>> /\ reply_count' = reply_count)
       /\ \A t \in 1..MaxReloads : reply_count'[t] <= 1
       /\ \A i \in 1..Len(sent') :
              sent'[i].msg.kind = "deferred" => op'.name = "ReloadFinished"
       /\ reply_count' # reply_count =>
              /\ op'.name = "ReloadFinished"
              /\ Pending
              /\ sent' = <<Send(queued_message.bus, queued_message.dest,
                                DeferredReply(queued_message.reply_to),
                                sent'[1].r)>>
              /\ reply_count' = [reply_count EXCEPT
                                    ![queued_message.reply_to] = 1]
       /\ op'.name = "ReloadFinished" =>
              /\ ~Pending'
              /\ queued_message_bus' = NoBus
              /\ queued_message.bus \in OpenBuses =>
                     reply_count'[queued_message.reply_to] = 1]_vars

\* the reply of the second accepted Reload has just been sent to its caller
C2_Witness ==
    /\ op.name = "ReloadFinished"
    /\ Len(sent) = 1
    /\ sent[1].msg = DeferredReply(2)
    /\ sent[1].bus \in OpenBuses
    /\ reply_count[1] = 1
    /\ reply_count[2] = 1
    /\ ~Pending

\* C3: at most one deferred reply exists at any time: either none is held and
\* none is allocated, or exactly the held one is.
C3_AtMostOnePending ==
    /\ Cardinality(live_replies) <= 1
    /\ ~Pending => (live_replies = {} /\ queued_message_bus = NoBus)
    /\ Pending => (live_replies = {queued_message} /\ queued_message_bus # NoBus)

\* a second Reload is pending after the first one was answered
C3_Witness ==
    /\ running
    /\ Pending
    /\ queued_message.reply_to = 2
    /\ reply_count[1] = 1

(***************************************************************************)
(* Properties of the fan-out (checked under SpecBroadcast).  Deliver       *)
(* leaves the registry and the connections as they are, so the state after *)
(* the step shows the set it ran on.                                       *)
(***************************************************************************)
Delivered == op.name = "Deliver"
NSubscribers == Cardinality(subscribed)
SentOn(b) == {i \in 1..Len(sent) : sent[i].bus = b}
SomeSendFailed == \E i \in 1..Len(sent) : sent[i].r < 0

\* C4: with two or more subscribers a failing send does not abort the
\* delivery: every open connection is still sent its copy.
C4_FailureDoesNotAbort ==
    (Delivered /\ NSubscribers >= 2 /\ SomeSendFailed) =>
        \A b \in OpenBuses : SentOn(b) # {}

\* C5: with two or more subscribers there is exactly one send without
\* destination per open connection, private and API, whatever the subscribers.
C5_OneSendPerOpenConnection ==
    (Delivered /\ NSubscribers >= 2) =>
        /\ Len(sent) = Cardinality(OpenBuses)
        /\ \A b \in OpenBuses : Cardinality(SentOn(b)) = 1
        /\ \A i \in 1..Len(sent) : sent[i].dest = NULL /\ sent[i].msg = Signal

\* C6: with exactly one subscriber there is exactly one send, on the
\* subscriber's connection and to its name (no destination if the name is
\* empty), and none on the other connections.
C6_SingleSubscriberDirect ==
    (Delivered /\ NSubscribers = 1) =>
        \A d \in subscribed :
            /\ Len(sent) = 1
            /\ sent[1].bus = d.bus
            /\ sent[1].dest = (IF d.name = "" THEN NULL ELSE d.name)
            /\ sent[1].msg = Signal

\* the only subscriber is a named peer of the API bus, a private connection
\* is open as well
C6_Witness ==
    /\ Delivered
    /\ NSubscribers = 1
    /\ private_buses # {}
    /\ Len(sent) = 1
    /\ sent[1].bus = api_bus
    /\ sent[1].dest \in ApiSenders

\* C7: with no subscriber nothing is sent on any connection and the delivery
\* reports success.
C7_NoSubscriberNoSend ==
    (Delivered /\ NSubscribers = 0) => (sent = <<>> /\ ret = 0)

\* a delivery with no subscriber while private and API connections are open
C7_Witness ==
    /\ Delivered
    /\ NSubscribers = 0
    /\ private_buses # {}
    /\ api_bus # NoBus
    /\ sent = <<>>

\* C8: a delivery in which no send fails reaches every subscriber: its
\* connection is sent a copy, addressed to it or to everybody.
C8_EverySubscriberReached ==
    (Delivered /\ ~SomeSendFailed) =>
        \A d \in subscribed :
            \E i \in 1..Len(sent) :
                /\ sent[i].bus = d.bus
                /\ sent[i].dest \in {NULL, d.name}

\* subscribers on the API bus and on a private connection, after another
\* subscriber was removed, all reached
C8_Witness ==
    /\ Delivered
    /\ ~SomeSendFailed
    /\ NSubscribers >= 2
    /\ \E d \in subscribed : d.bus = api_bus
    /\ \E d \in subscribed : d.bus \in private_buses
    /\ next_bus > MaxBus
    /\ Cardinality(OpenBuses) < MaxBus

\* C9: the delivery returns the first error of its sends, or success if none
\* failed, and sends at most once on a connection.
FirstError(s) ==
    IF \E i \in 1..Len(s) : s[i].r < 0
    THEN s[CHOOSE i \in 1..Len(s) :
               s[i].r < 0 /\ \A j \in 1..(i - 1) : s[j].r >= 0].r
    ELSE 0

C9_FirstErrorReturned ==
    Delivered =>
        /\ ret = FirstError(sent)
        /\ \A b \in OpenBuses : Cardinality(SentOn(b)) <= 1

\* the first send succeeded, a later one failed and its error is returned
C9_Witness ==
    /\ Delivered
    /\ Len(sent) >= 2
    /\ sent[1].r = 0
    /\ sent[Len(sent)].r < 0
    /\ ret = sent[Len(sent)].r

(***************************************************************************)
(* Properties of the lookups (checked under SpecLookup).                   *)
(***************************************************************************)
Resolvers == {"GetUnit", "GetUnitByPID", "LoadUnit", "GetJob", "CancelJob"}

\* C10: a caller the access check denies gets the permission fault from every
\* handler that resolves a unit or a job, whether the object exists or not.
C10_DeniedCallerGetsPermissionFault ==
    (op.name \in Resolvers /\ ~op.allow /\ ~(op.name = "GetUnitByPID" /\ op.id = 0)) =>
        outcome = Fault("AccessDenied")

\* the calls a handler made during the last step, as a set
Calls == {trace[i] : i \in 1..Len(trace)}

\* the last step asked the access check and the check denied
GateDenied == ~op.allow /\ "check" \in Calls

\* C11: a request the access check denies ends with the permission fault and
\* leaves the units, the jobs, the exit code, the subscribers and the held
\* reply as they were.
C11_DeniedRequestChangesNothing ==
    [][GateDenied' =>
          /\ outcome' = Fault("AccessDenied")
          /\ UNCHANGED <<units, jobs, next_job, subscribed,
                         queued_message, queued_message_bus, exit_code>>]_vars

\* names of the requests of the Manager interface
Methods ==
    {"Subscribe", "Unsubscribe", "Reload", "Reexecute", "Exit", "Reboot",
     "PowerOff", "Halt", "KExec", "GetUnit", "GetUnitByPID", "LoadUnit",
     "GetJob", "CancelJob", "StartUnit", "StopUnit", "EnableUnitFiles",
     "ReenableUnitFiles", "LinkUnitFiles", "PresetUnitFiles", "MaskUnitFiles",
     "DisableUnitFiles", "UnmaskUnitFiles", "SetDefaultTarget"}

\* calls that change state or emit messages
Effects == {"load", "job", "cancel", "track", "untrack", "queue", "exit",
            "call", "deliver"}

\* C12: every request asks the access check exactly once, whatever its
\* outcome, and asks it before any call that has an effect.
C12_GateOnceBeforeEffects ==
    op.name \in Methods =>
        /\ Cardinality({i \in 1..Len(trace) : trace[i] = "check"}) = 1
        /\ \A i \in 1..Len(trace) : \A j \in 1..Len(trace) :
              (trace[i] = "check" /\ trace[j] \in Effects) => i < j

\* C13: an allowed Subscribe from an endpoint that has no entry adds exactly
\* its entry and replies success (unless the entry cannot be allocated); from
\* an endpoint that has an entry it yields AlreadySubscribed and leaves the
\* registry as it is.  The registry holds one entry per endpoint at most.
C13_SubscribeAddsOnce ==
    [][(op'.name = "Subscribe" /\ op'.allow) =>
          LET d == Client(op'.bus, op'.sender) IN
          IF d \in subscribed
          THEN /\ outcome' = Fault("AlreadySubscribed")
               /\ sent' = <<>>
               /\ subscribed' = subscribed
          ELSE \/ /\ outcome' = Reply("")
                  /\ sent' = <<Send(op'.bus, op'.sender, SyncReply, 0)>>
                  /\ subscribed' = subscribed \cup {d}
                  /\ Cardinality(subscribed') = Cardinality(subscribed) + 1
               \/ /\ outcome' = Fault("ENOMEM")
                  /\ sent' = <<>>
                  /\ subscribed' = subscribed]_vars

\* a subscribed endpoint has just asked again, next to another subscriber
C13_Witness ==
    /\ op.name = "Subscribe"
    /\ outcome = Fault("AlreadySubscribed")
    /\ Client(op.bus, op.sender) \in subscribed
    /\ Cardinality(subscribed) = 2

\* C14: an allowed Unsubscribe from an endpoint that has an entry removes that
\* entry only and replies success; from an endpoint that has none it yields
\* NotSubscribed and leaves the registry as it is.
C14_UnsubscribeRemovesExactlyOne ==
    [][(op'.name = "Unsubscribe" /\ op'.allow) =>
          LET d == Client(op'.bus, op'.sender) IN
          IF d \in subscribed
          THEN /\ outcome' = Reply("")
               /\ sent' = <<Send(op'.bus, op'.sender, SyncReply, 0)>>
               /\ subscribed' = subscribed \ {d}
          ELSE /\ outcome' = Fault("NotSubscribed")
               /\ sent' = <<>>
               /\ subscribed' = subscribed]_vars

\* an endpoint without entry has just asked to unsubscribe while another
\* endpoint is subscribed
C14_Witness ==
    /\ op.name = "Unsubscribe"
    /\ op.allow
    /\ outcome = Fault("NotSubscribed")
    /\ Client(op.bus, op.sender) \notin subscribed
    /\ Cardinality(subscribed) = 1

\* C15: when a connection goes away its entries, and only they, leave the
\* registry, without fault; no entry of the registry is on a closed
\* connection, no delivery is sent on a closed connection or addressed to an
\* endpoint without entry, and a Subscribe from an endpoint without entry is
\* never refused as already subscribed.
C15_DisconnectRemovesSubscriber ==
    [][/\ op'.name = "Disconnect" =>
              /\ subscribed' = {d \in subscribed : d.bus # op'.bus}
              /\ outcome'.kind = "removed"
              /\ outcome'.id = Cardinality({d \in subscribed : d.bus = op'.bus})
              /\ sent' = <<>>
              /\ running'
       /\ \A d \in subscribed' : d.bus \in (private_buses' \cup {api_bus'}) \ {NoBus}
       /\ op'.name = "Deliver" =>
              \A i \in 1..Len(sent') :
                  /\ sent'[i].bus \in (private_buses' \cup {api_bus'}) \ {NoBus}
                  /\ sent'[i].dest # NULL =>
                         Client(sent'[i].bus, sent'[i].dest) \in subscribed'
       /\ (op'.name = "Subscribe" /\ op'.allow
              /\ Client(op'.bus, op'.sender) \notin subscribed) =>
              outcome' # Fault("AlreadySubscribed")]_vars

\* a connection with one entry has just gone away and one subscriber is left
C15_Witness ==
    /\ op.name = "Disconnect"
    /\ outcome = Removed(1)
    /\ Cardinality(subscribed) = 1

\* the connection the held reply belongs to is open
OwnerConnected == queued_message_bus \in OpenBuses

\* C16: an accepted Reload is answered in the end, or its connection goes
\* away, whatever is dispatched while the reply is held.
C16_AcceptedReloadAnswered ==
    (Pending /\ OwnerConnected) ~> (~Pending \/ ~OwnerConnected)

\* C17: when the connection of the held reply is gone, the reload-finished
\* event drops the reply and sends nothing, without fault; the process keeps
\* running, the dropped reply is never sent later, and the next allowed Reload
\* is accepted.
C17_GoneOwnerReplyDiscarded ==
    [][/\ (op'.name = "ReloadFinished" /\ ~OwnerConnected) =>
              /\ sent' = <<>>
              /\ reply_count' = reply_count
              /\ ~Pending'
              /\ live_replies' = {}
              /\ queued_message_bus' = NoBus
              /\ outcome'.kind # "error"
              /\ running'
       /\ \A i \in 1..Len(sent') :
              sent'[i].msg.kind = "deferred" =>
                  /\ OwnerConnected
                  /\ sent'[i].bus = queued_message_bus
                  /\ sent'[i].msg.reply_to = queued_message.reply_to
       /\ (op'.name = "Reload" /\ op'.allow /\ ~Pending) =>
              \/ outcome' = NoReply /\ Pending' /\ queued_message_bus' = op'.bus
              \/ outcome' = Fault("ENOMEM") /\ ~Pending']_vars

\* a second Reload has just been accepted although the reply of the first one
\* was never sent: its connection was gone when the reload finished
C17_Witness ==
    /\ op.name = "Reload"
    /\ outcome = NoReply
    /\ Pending
    /\ queued_message.reply_to = 2
    /\ reply_count[1] = 0
    /\ reply_count[2] = 0

\* C18: an allowed Reexecute sends nothing, sets the exit code to
\* MANAGER_REEXECUTE, and leaves the held reply, its connection and the count
\* of replies sent as they were.
C18_ReexecuteSendsNoReply ==
    [][(op'.name = "Reexecute" /\ op'.allow) =>
          /\ sent' = <<>>
          /\ outcome' = NoReply
          /\ exit_code' = "MANAGER_REEXECUTE"
          /\ UNCHANGED tracker_vars
          /\ running']_vars

\* Reexecute has just been accepted while a Reload reply is held
C18_Witness ==
    /\ op.name = "Reexecute"
    /\ op.allow
    /\ exit_code = "MANAGER_REEXECUTE"
    /\ Pending
    /\ sent = <<>>
    /\ reply_count[1] = 0

\* C19: a request that does not end in success leaves the registry and the
\* held reply as they were and the process running, so that the request after
\* it is dispatched.
C19_FaultLeavesRegistryAndTracker ==
    [][(op'.name \in Methods /\ outcome'.kind \in {"error", "abort"}) =>
          /\ subscribed' = subscribed
          /\ UNCHANGED tracker_vars
          /\ running']_vars

\* the unit-file batch operations
UnitFileMethods ==
    {"EnableUnitFiles", "ReenableUnitFiles", "LinkUnitFiles", "PresetUnitFiles",
     "MaskUnitFiles", "DisableUnitFiles", "UnmaskUnitFiles", "SetDefaultTarget"}

\* the collaborator was called by the last step and did not fail
CallSucceeded == "call" \in Calls /\ op.r >= 0

\* the UnitFilesChanged signals the last step put on the wire
SignalsSent == {i \in 1..Len(sent) : sent[i].msg = Signal}

\* C20: a batch operation whose collaborator call succeeds hands the
\* UnitFilesChanged notification to the broadcast once if there are change
\* records and not at all if there are none.
C20_UnitFilesChangedOncePerChange ==
    (op.name \in UnitFileMethods /\ CallSucceeded) =>
        /\ Cardinality({i \in 1..Len(trace) : trace[i] = "deliver"}) =
               (IF op.id > 0 THEN 1 ELSE 0)
        /\ op.id = 0 => SignalsSent = {}
        /\ (op.id > 0 /\ subscribed # {}) => SignalsSent # {}

\* Mask with two change records has just notified two subscribers and replied
C20_Witness ==
    /\ op.name = "MaskUnitFiles"
    /\ CallSucceeded
    /\ op.id = 2
    /\ Cardinality(subscribed) = 2
    /\ Cardinality(SignalsSent) >= 1
    /\ outcome = ChangesReply(-1, 2)

\* the collaborator was called by the last step and reported an error
CallFailed == "call" \in Calls /\ op.r < 0

\* C21: when the collaborator of a batch operation reports an error, the
\* request ends with the fault of that very error; nothing is put on the wire,
\* the broadcast is not called and the collaborator is called once only.
C21_CollaboratorErrorPropagated ==
    (op.name \in UnitFileMethods /\ CallFailed) =>
        /\ ret = op.r
        /\ outcome = Errno(op.r)
        /\ outcome.val \in {"EIO", "ENOENT"}
        /\ sent = <<>>
        /\ trace = <<"check", "call">>

\* Disable has just failed in the collaborator with -ENOENT while a
\* subscriber is registered and change records had been produced
C21_Witness ==
    /\ op.name = "DisableUnitFiles"
    /\ CallFailed
    /\ op.r = -2
    /\ op.id = 2
    /\ subscribed # {}
    /\ outcome = Fault("ENOENT")

\* the last step was an allowed, well-formed SwitchRoot whose root is "/" or
\* is not absolute
BadRoot ==
    /\ op.name = "SwitchRoot"
    /\ op.allow
    /\ outcome # Fault("EBADMSG")
    /\ (path_equal(op.arg, "/") \/ ~path_is_absolute(op.arg))

\* C22 as stated: SwitchRoot with root "/" or a root that is not absolute
\* fails with InvalidArguments whatever the mode of the manager, and leaves
\* the switch-root target, the init path and the exit code as they were.
C22_BadRootInvalidInEveryMode ==
    [][BadRoot' =>
          /\ outcome' = Fault("InvalidArguments")
          /\ UNCHANGED <<switch_root, switch_root_init, exit_code>>]_vars

\* C22 amended: such a SwitchRoot fails with InvalidArguments on a system
\* manager and with NotSupported on any other manager; in both cases the
\* switch-root target, the init path and the exit code stay as they were.
C22_BadRootRejected ==
    [][BadRoot' =>
          /\ outcome' = (IF running_as = "SYSTEMD_SYSTEM"
                         THEN Fault("InvalidArguments")
                         ELSE Fault("NotSupported"))
          /\ sent' = <<>>
          /\ UNCHANGED <<switch_root, switch_root_init, exit_code>>]_vars

\* a system manager that has a switch-root target has just refused root "//"
C22_Witness ==
    /\ BadRoot
    /\ op.arg = "//"
    /\ running_as = "SYSTEMD_SYSTEM"
    /\ outcome = Fault("InvalidArguments")
    /\ switch_root = "/sysroot"
    /\ switch_root_init = "/sbin/init"
    /\ exit_code = "MANAGER_REBOOT"

\* the exit code each lifecycle request schedules
LifecycleAction(name) ==
    CASE name = "Exit" -> "MANAGER_EXIT"
      [] name = "Reboot" -> "MANAGER_REBOOT"
      [] name = "PowerOff" -> "MANAGER_POWEROFF"
      [] name = "Halt" -> "MANAGER_HALT"
      [] name = "KExec" -> "MANAGER_KEXEC"

\* whether the manager serves the lifecycle request in its mode
LifecycleSupported(name) ==
    IF name = "Exit" THEN running_as # "SYSTEMD_SYSTEM"
    ELSE running_as = "SYSTEMD_SYSTEM"

\* C23: an allowed Reboot, PowerOff, Halt or KExec on a manager that is not
\* a system manager, and an allowed Exit on a system manager, fail with
\* NotSupported and leave the exit code as it was; otherwise the exit code
\* becomes the action of the method and an empty reply is sent.
C23_LifecycleModeChecked ==
    [][(op'.name \in {"Exit", "Reboot", "PowerOff", "Halt", "KExec"} /\ op'.allow) =>
          IF LifecycleSupported(op'.name)
          THEN /\ exit_code' = LifecycleAction(op'.name)
               /\ outcome' = Reply("")
               /\ sent' = <<Send(op'.bus, op'.sender, SyncReply, 0)>>
          ELSE /\ outcome' = Fault("NotSupported")
               /\ exit_code' = exit_code
               /\ sent' = <<>>]_vars

\* a system manager with a scheduled poweroff has just refused Exit
C23_Witness ==
    /\ op.name = "Exit"
    /\ op.allow
    /\ running_as = "SYSTEMD_SYSTEM"
    /\ outcome = Fault("NotSupported")
    /\ exit_code = "MANAGER_POWEROFF"

\* the assignments the last request asked to set, and the names or
\* assignments it asked to unset
SetList ==
    IF op.name = "SetEnvironment" THEN op.first
    ELSE IF op.name = "UnsetAndSetEnvironment" THEN op.second
    ELSE <<>>
UnsetList ==
    IF op.name \in {"UnsetEnvironment", "UnsetAndSetEnvironment"} THEN op.first
    ELSE <<>>

\* the last step was an allowed, well-formed environment request with an
\* entry that is not valid
BadEnvironmentRequest ==
    /\ op.name \in {"SetEnvironment", "UnsetEnvironment", "UnsetAndSetEnvironment"}
    /\ op.allow
    /\ outcome # Fault("EBADMSG")
    /\ \/ ~strv_env_is_valid(SetList)
       \/ ~strv_env_name_or_assignment_is_valid(UnsetList)

\* C24: an environment request with an entry to set that is not a valid
\* assignment, or an entry to unset that is neither a valid name nor a valid
\* assignment, fails with InvalidArguments and leaves the environment as it
\* was.
C24_InvalidEnvironmentRejected ==
    [][BadEnvironmentRequest' =>
          /\ outcome' = Fault("InvalidArguments")
          /\ environment' = environment]_vars

\* the value the last Set tried to write is outside the domain of its property
OutOfDomain ==
    \/ op.arg = "LogLevel" /\ op.arg2 \notin LogLevels
    \/ op.arg = "LogTarget" /\ op.arg2 \notin LogTargets

\* C25: a Set that fails leaves the values of LogLevel, LogTarget,
\* RuntimeWatchdogUSec and ShutdownWatchdogUSec as they were, and a value that
\* can be read but is outside the domain of the property is answered with
\* InvalidArguments.
C25_FailedSetKeepsValue ==
    [][(op'.name = "Set" /\ outcome'.kind = "error") =>
          /\ UNCHANGED <<log_level, log_target, runtime_watchdog, shutdown_watchdog>>
          /\ (OutOfDomain' /\ outcome' # Fault("EBADMSG")) =>
                 outcome' = Fault("InvalidArguments")]_vars

\* C26: reading a property changes nothing: the units, the jobs, the
\* environment, the exit code, the subscribers, the held reply, the
\* connections and the values of the properties are the same before and after.
C26_GetChangesNothing ==
    [][op'.name = "Get" =>
          /\ UNCHANGED <<units, jobs, next_job, environment, exit_code, subscribed>>
          /\ UNCHANGED <<queued_message, queued_message_bus, live_replies>>
          /\ UNCHANGED <<log_level, log_target, runtime_watchdog,
                         shutdown_watchdog, finished>>
          /\ UNCHANGED <<switch_root, switch_root_init, running, running_as>>
          /\ UNCHANGED <<private_buses, api_bus>>]_vars

\* LogLevel has just been read while a unit is loaded and a job is installed
C26_Witness ==
    /\ op.name = "Get"
    /\ op.arg = "LogLevel"
    /\ outcome = String("info")
    /\ units # {}
    /\ jobs # {}

\* C27: GetUnit for a name that is not loaded yields NoSuchUnit and loads
\* nothing; an allowed LoadUnit for such a name either loads the unit and
\* returns its path, or fails with the error of the loader and loads nothing
\* (or runs out of memory for the path after loading).
C27_GetUnitDoesNotLoad ==
    [][/\ (op'.name = "GetUnit" /\ op'.arg \notin units) =>
              /\ outcome' = Fault("NoSuchUnit")
              /\ sent' = <<>>
              /\ UNCHANGED <<units, jobs, next_job>>
       /\ (op'.name = "LoadUnit" /\ op'.allow /\ op'.arg \notin units) =>
              \/ /\ outcome' = Reply(op'.arg)
                 /\ sent' = <<Send(op'.bus, op'.sender, SyncReply, 0)>>
                 /\ units' = units \cup {op'.arg}
              \/ /\ outcome' = Fault("LoadFailed")
                 /\ sent' = <<>>
                 /\ units' = units
              \/ /\ outcome' = Fault("ENOMEM")
                 /\ sent' = <<>>
                 /\ units' = units \cup {op'.arg}]_vars

\* GetUnit has just been refused for a unit that is not loaded, while another
\* unit is
C27_Witness ==
    /\ op.name = "GetUnit"
    /\ outcome = Fault("NoSuchUnit")
    /\ op.arg = "a.service"
    /\ units = {"b.service"}

\* C28: GetJob and CancelJob for an id that names no job yield NoSuchJob and
\* leave the jobs as they are; CancelJob for a job the caller may stop removes
\* that job and no other, and replies with an empty success.
C28_CancelJobFinishesThatJob ==
    [][/\ (op'.name \in {"GetJob", "CancelJob"}
           /\ manager_get_job(op'.id) = {}) =>
              /\ outcome' = Fault("NoSuchJob")
              /\ sent' = <<>>
              /\ UNCHANGED <<units, jobs, next_job>>
       /\ (op'.name = "CancelJob" /\ op'.allow
           /\ manager_get_job(op'.id) # {}) =>
              /\ outcome' = Reply("")
              /\ sent' = <<Send(op'.bus, op'.sender, SyncReply, 0)>>
              /\ trace' = <<"lookup", "check", "cancel">>
              /\ jobs' = {j \in jobs : j.id # op'.id}
              /\ UNCHANGED <<units, next_job>>]_vars

\* one of two jobs has just been cancelled
C28_Witness ==
    /\ op.name = "CancelJob"
    /\ outcome = Reply("")
    /\ Cardinality(jobs) = 1
    /\ \A j \in jobs : j.id # op.id
    /\ next_job = 3

\* C29: a well-formed StartTransientUnit from a caller the access check lets
\* through, for a unit of the registry that loaded or that another unit
\* refers to, fails with UnitExists: the unit is not made transient, gets no
\* properties and no start job.
C29_ExistingUnitNotMadeTransient ==
    [][(/\ op'.name = "StartTransientUnit"
        /\ op'.allow
        /\ can_transient(unit_name_to_type(op'.arg))
        /\ job_mode_from_string(op'.arg2) # "_JOB_MODE_INVALID"
        /\ op'.arg \in units
        /\ \/ load_state(op'.arg, not_found) # "UNIT_NOT_FOUND"
           \/ op'.arg \in referenced_by) =>
           /\ outcome' = Fault("UnitExists")
           /\ sent' = <<>>
           /\ trace' = <<"check", "load">>
           /\ UNCHANGED <<units, jobs, next_job, not_found, referenced_by,
                          transient>>]_vars

\* StartTransientUnit has just been refused for a unit nothing was found on
\* disk for, but that another unit refers to
C29_Witness ==
    /\ op.name = "StartTransientUnit"
    /\ outcome = Fault("UnitExists")
    /\ op.arg \in not_found
    /\ op.arg \in referenced_by
    /\ op.arg \notin transient

\* C30: the Progress attribute read is 1 once startup has finished and
\* 1 - pending / installed before, and it is a number between 0 and 1 in
\* every state, also when no job was ever installed.
C30_ProgressInUnitInterval ==
    (op.name = "Get" /\ op.arg = "Progress" /\ outcome.kind = "reply") =>
        /\ outcome.val = "d"
        /\ outcome.id \in 0..100
        /\ outcome.id = IF finished \/ n_installed_jobs = 0 THEN 100
                        ELSE 100 - (100 * Cardinality(jobs)) \div n_installed_jobs

\* C31: every read-only attribute reports the field of the manager it is
\* named after: KernelTimestamp the kernel timestamp, DefaultStandardError
\* the default for standard error.
C31_AttributeReportsOwnField ==
    (op.name = "Get" /\ outcome.kind = "reply") =>
        /\ op.arg = "FirmwareTimestamp" => outcome = Number(firmware_timestamp)
        /\ op.arg = "KernelTimestamp" => outcome = Number(kernel_timestamp)
        /\ op.arg = "DefaultStandardOutput" => outcome = String(default_std_output)
        /\ op.arg = "DefaultStandardError" => outcome = String(default_std_error)

\* C32: while a deferred reply is held, the reload it waits for is the exit
\* action of the manager: no request dispatched after the accepted Reload
\* replaces it.
C32_PendingMeansReloadScheduled ==
    (running /\ Pending) => exit_code = "MANAGER_RELOAD"

\* C33: a Reload whose reply cannot be built fails and changes nothing: no
\* reply and no connection are held afterwards and the exit action is the
\* one it was; and a held reply always comes with the connection it is for.
C33_FailedBuildLeavesTrackerIdle ==
    [][/\ (op'.name = "Reload" /\ outcome' = Fault("ENOMEM")) =>
              /\ UNCHANGED tracker_vars
              /\ exit_code' = exit_code
              /\ ~Pending'
              /\ queued_message_bus' = NoBus
              /\ sent' = <<>>
              /\ running'
       /\ Pending' => /\ queued_message_bus' # NoBus
                      /\ queued_message_bus' = queued_message'.bus]_vars

\* the reply of an allowed Reload could not be built on a manager that has
\* nothing scheduled
C33_Witness ==
    /\ op.name = "Reload"
    /\ op.allow
    /\ outcome = Fault("ENOMEM")
    /\ exit_code = "MANAGER_RUNNING"
    /\ ~Pending
    /\ queued_message_bus = NoBus

\* the caller of the last request is in the registry of subscribers
CallerSubscribed ==
    \E c \in subscribed : c.bus = op.bus /\ c.name = op.sender

C35_SwitchRootRecordedAndScheduled ==
    (op.name = "SwitchRoot" /\ outcome = Reply("")) =>
        /\ switch_root = op.arg
        /\ switch_root_init = (IF isempty(op.arg2) THEN NULL ELSE op.arg2)
        /\ exit_code = "MANAGER_SWITCH_ROOT"

\* C36: UnsetAndSetEnvironment takes its first list as what to unset and its
\* second list as what to set: a request that succeeds had valid names or
\* assignments first and valid assignments second, and leaves the environment
\* without the first and with the second.
C36_UnsetFirstSetSecond ==
    [][(op'.name = "UnsetAndSetEnvironment" /\ outcome' = Reply("")) =>
          /\ strv_env_name_or_assignment_is_valid(op'.first)
          /\ strv_env_is_valid(op'.second)
          /\ environment' =
                 manager_environment_add(environment, op'.first, op'.second)]_vars

\* the job each method that starts a job asks for: the type and whether a
\* reload is taken instead where the unit can be reloaded
JobOfMethod ==
    [StartUnit |-> <<"JOB_START", FALSE>>,
     StopUnit |-> <<"JOB_STOP", FALSE>>,
     ReloadUnit |-> <<"JOB_RELOAD", FALSE>>,
     RestartUnit |-> <<"JOB_RESTART", FALSE>>,
     TryRestartUnit |-> <<"JOB_TRY_RESTART", FALSE>>,
     ReloadOrRestartUnit |-> <<"JOB_RESTART", TRUE>>,
     ReloadOrTryRestartUnit |-> <<"JOB_TRY_RESTART", TRUE>>]

\* C37: KillUnit, ResetFailedUnit and SetUnitProperties for a name that is
\* not loaded fail with NoSuchUnit and leave the units and jobs as they are;
\* the seven methods that start a job load the named unit if it is not loaded
\* and, for a caller that may, queue one job of the type of the method on it.
C37_LookupOrLoadOnDemand ==
    [][/\ (op'.name \in {"KillUnit", "ResetFailedUnit", "SetUnitProperties"}
           /\ op'.arg \notin units) =>
              /\ outcome' = Fault("NoSuchUnit")
              /\ sent' = <<>>
              /\ UNCHANGED <<units, jobs, next_job>>
       /\ op'.name \in DOMAIN JobOfMethod =>
              \/ /\ outcome' = Fault("LoadFailed")
                 /\ op'.arg \notin units
                 /\ UNCHANGED <<units, jobs, next_job>>
              \/ /\ units' = units \cup {op'.arg}
                 /\ IF op'.allow
                    THEN /\ outcome' = JobReply(next_job)
                         /\ jobs' = jobs \cup
                                {Job(next_job, op'.arg,
                                     JobOfMethod[op'.name][1],
                                     JobOfMethod[op'.name][2])}
                         /\ next_job' = next_job + 1
                    ELSE /\ outcome' = Fault("AccessDenied")
                         /\ UNCHANGED <<jobs, next_job>>]_vars

\* ReloadOrTryRestartUnit has just loaded a unit and queued its job, next to
\* the job of a TryRestartUnit
C37_Witness ==
    /\ op.name = "ReloadOrTryRestartUnit"
    /\ outcome = JobReply(2)
    /\ units = {"a.service", "b.service"}
    /\ jobs = {Job(1, "a.service", "JOB_TRY_RESTART", FALSE),
               Job(2, "b.service", "JOB_TRY_RESTART", TRUE)}

\* C38: the reply of ListUnits has exactly one entry for every unit, whatever
\* further names the unit has, and the entry carries the id, type and path of
\* the job of the unit, or 0, "" and "/" if it has none; the reply of ListJobs
\* has one entry for every job; neither changes the units, their names or
\* the jobs.
C38_OneRecordPerUnit ==
    [][/\ (op'.name = "ListUnits" /\ outcome'.kind = "reply") =>
              /\ DOMAIN outcome'.records = {UnitRecord(u) : u \in units}
              /\ outcome'.id = Cardinality(units)
              /\ \A r \in DOMAIN outcome'.records :
                     /\ outcome'.records[r] = 1
                     /\ r.id \in units
                     /\ IF \E j \in jobs : j.unit = r.id
                        THEN \E j \in jobs :
                                 /\ j.unit = r.id
                                 /\ r.job_id = j.id
                                 /\ r.job_type = job_type_to_string(j.type)
                                 /\ r.job_path = job_dbus_path(j.id)
                        ELSE r.job_id = 0 /\ r.job_type = "" /\ r.job_path = "/"
       /\ (op'.name = "ListJobs" /\ outcome'.kind = "reply") =>
              /\ outcome'.id = Cardinality(jobs)
              /\ \A r \in DOMAIN outcome'.records : outcome'.records[r] = 1
              /\ {r.id : r \in DOMAIN outcome'.records} = {j.id : j \in jobs}
       /\ op'.name \in {"ListUnits", "ListJobs"} =>
              UNCHANGED <<units, jobs, next_job, aliases>>]_vars

\* ListUnits has just answered for two units, one with two further names and
\* a job, the other without a job
C38_Witness ==
    /\ op.name = "ListUnits"
    /\ outcome.kind = "reply"
    /\ outcome.id = 2
    /\ Cardinality(aliases) = 2
    /\ \A a \in aliases : a.id = "a.service"
    /\ \E j \in jobs : j.unit = "a.service"
    /\ ~ \E j \in jobs : j.unit = "b.service"
    /\ units = {"a.service", "b.service"}

=============================================================================
